---- MODULE Spec2Model ----
(***************************************************************************)
(* Model of the observability agent: the correlation engine                *)
(* (src/observability/ai-agent/correlation_engine.py) and the analyzer     *)
(* (src/observability/ai-agent/app.py); and of the claims application it   *)
(* observes: the local claims service (src/app/app_local.py) and the       *)
(* claims processor (src/app/lambda/claims_processor.py).                  *)
(*                                                                         *)
(* The agent keeps no state between two requests: every public operation   *)
(* queries the backends, computes a value and returns it.  The inputs of   *)
(* an operation are therefore the HTTP responses its queries receive.  A   *)
(* request is one action that draws those responses, runs the whole        *)
(* operation on them and records what the operation did; the route handler *)
(* then hands the value to the caller and the process is idle again.       *)
(*                                                                         *)
(* Numbers that arrive as decimal strings (a Prometheus sample value) are  *)
(* held in thousandths: the string "2.5" is the integer 2500.  float(),    *)
(* int() and the comparisons of the code are computed on that scale.       *)
(***************************************************************************)
EXTENDS Integers, Sequences, FiniteSets, TLC

VARIABLES
    pc,        \* "idle": no request in progress; "done": an operation has ended
    op,        \* the operation of the request ("none" when idle)
    env,       \* the HTTP responses the operation's queries received
    issued,    \* the queries the operation issued, in order
    ret,       \* what each client call of the operation returned to it
    outcome,   \* "returned" or "raised" (an exception left the operation)
    result,    \* the value the operation returned
    earlier,   \* history: how the caller's previous invocation of the same
               \* operation ended, when this one received the same responses
    workers,   \* the threads of the server, each with the locals of the
               \* investigation it is running
    problem_patterns,  \* the analyzer's registry of known problems
    claims_db,         \* the local claims service: claim id -> stored claim
    ACTIVE_CLAIMS,     \* the local claims service: the gauge active_claims_total
    submitters,        \* the threads of the local claims service, each with
                       \* the locals of the submit_claim it is serving
    answered           \* history: the answers the local claims service has sent

vars == <<pc, op, env, issued, ret, outcome, result, earlier, workers,
          problem_patterns, claims_db, ACTIVE_CLAIMS, submitters, answered>>

\* the state of the local claims service, a process of its own
claims_service == <<claims_db, ACTIVE_CLAIMS, submitters, answered>>
\* the state a request served on its own does not touch
elsewhere == <<workers, problem_patterns, claims_service>>
\* the state of the request served on its own
alone == <<pc, op, env, issued, ret, outcome, result, earlier>>

-----------------------------------------------------------------------------
(* Bounds of the model *)

\* longest list of log documents a log backend answers with
MaxLogs == 3
\* sample values of the engine's metric queries are k * 0.5 for k in 0..MaxVal
MaxVal == 2
\* counts of the analyzer's claim queries are 0..MaxCount
MaxCount == 10
\* longest list of documents the analyzer's log queries are answered with
MaxDocs == 11
\* longest list of log documents in a request for the story
MaxStoryLogs == 2
\* the readings of the wall clock are 0..MaxClock
MaxClock == 1
\* the server runs MaxThreads threads
MaxThreads == 2
\* the local claims service receives at most MaxRequests submissions
MaxRequests == 3

-----------------------------------------------------------------------------
(* Python values *)

None == [tag |-> "None"]
List(s) == [tag |-> "list", items |-> s]

\* Python truthiness of None, a list or a dict (a dict of the code is never empty)
Truthy(v) == CASE v.tag = "None" -> FALSE
               [] v.tag = "list" -> v.items # <<>>
               [] OTHER -> TRUE

\* int(float(s)) of the decimal string that stands for m thousandths:
\* truncation toward zero
IntOf(m) == IF m >= 0 THEN m \div 1000 ELSE -((-m) \div 1000)

\* x in tokens: the substring test of the code, on messages held as token lists
Contains(msg, w) == \E i \in 1..Len(msg) : msg[i] = w

\* str.lower() on the tokens of the model
Lower(msg) == [i \in 1..Len(msg) |-> IF msg[i] = "Database" THEN "database" ELSE msg[i]]

\* dict.get(k, 0) + 1 on a dict held as the list of its items in insertion order
DictInc(d, k) ==
    IF \E i \in 1..Len(d) : d[i].k = k
    THEN [i \in 1..Len(d) |-> IF d[i].k = k THEN [k |-> k, v |-> d[i].v + 1] ELSE d[i]]
    ELSE Append(d, [k |-> k, v |-> 1])

\* sorted(d.items(), key=count, reverse=True): stable, larger counts first
RECURSIVE InsertDesc(_, _)
InsertDesc(s, e) ==
    IF s = <<>> THEN <<e>>
    ELSE IF Head(s).v >= e.v THEN <<Head(s)>> \o InsertDesc(Tail(s), e)
    ELSE <<e>> \o s

RECURSIVE SortedDesc(_)
SortedDesc(d) ==
    IF d = <<>> THEN <<>>
    ELSE InsertDesc(SortedDesc(SubSeq(d, 1, Len(d) - 1)), d[Len(d)])

-----------------------------------------------------------------------------
(* HTTP responses of the backends *)

NoBody == [tag |-> "none"]
TransportError == [net |-> "error", status |-> 0, body |-> NoBody]
TimedOut == [net |-> "timeout", status |-> 0, body |-> NoBody]
Http(s, b) == [net |-> "ok", status |-> s, body |-> b]

Statuses == {200, 503}

\* a sample of a Prometheus result: {"value": [ts, "<number>"]}, a value that is
\* no number, or a sample without "value"
Num(m) == [tag |-> "num", milli |-> m]
BadSample == [tag |-> "bad", milli |-> 0]
NoValueSample == [tag |-> "novalue", milli |-> 0]

PromResult(s) == [tag |-> "result", result |-> s]
\* bodies of a metrics backend: not JSON, {"data": null}, no "data" key, or a
\* result list of at most one sample
PromBodies(vals) ==
    {[tag |-> "nonjson", result |-> <<>>], [tag |-> "null_data", result |-> <<>>],
     [tag |-> "no_data", result |-> <<>>], PromResult(<<>>),
     PromResult(<<BadSample>>), PromResult(<<NoValueSample>>)}
    \cup {PromResult(<<Num(m)>>) : m \in vals}

PromResponses(vals) ==
    {TransportError, TimedOut} \cup {Http(s, b) : s \in Statuses, b \in PromBodies(vals)}

\* log documents: {"_source": {"message": <text>}}, a null message, no "_source"
Doc(msg) == [tag |-> "str", message |-> msg]
NullMsgDoc == [tag |-> "null", message |-> <<>>]
NoSourceDoc == [tag |-> "nosource", message |-> <<>>]

MsgInvalid == <<"Claim", "rejected", "Invalid", "policy">>
MsgExceeds == <<"rejected", "amount", "exceeds", "coverage">>
MsgRejected == <<"Claim", "rejected">>
MsgDatabase == <<"Database", "timeout">>

SeqsUpTo(S, n) == UNION {[1..k -> S] : k \in 0..n}

Hits(s) == [tag |-> "hits", hits |-> s]
\* bodies of a log backend: not JSON, no "hits" key, {"hits": {"hits": null}},
\* or a list of documents
LogBodies(docs, n) ==
    {[tag |-> "nonjson", hits |-> <<>>], [tag |-> "no_hits", hits |-> <<>>],
     [tag |-> "null_hits", hits |-> <<>>]}
    \cup {Hits(s) : s \in SeqsUpTo(docs, n)}

LogResponses(docs, n) ==
    {TransportError, TimedOut} \cup {Http(s, b) : s \in Statuses, b \in LogBodies(docs, n)}

EngineVals == {k * 500 : k \in 0..MaxVal}
ErrorDocs == {Doc(MsgInvalid), Doc(MsgRejected), Doc(MsgDatabase), NullMsgDoc}
RejectionDocs == {Doc(MsgInvalid), Doc(MsgExceeds), Doc(MsgRejected), NullMsgDoc}
PerfDocs == {Doc(MsgDatabase), NullMsgDoc, NoSourceDoc}

\* the responses to the two claim-count queries of the engine: a failure, or
\* under either status a body that is not JSON, an empty result or one sample
RejectedCountVals == {0, 500, 1000}
TotalCountVals == {0, 1000}
CountResponses(vals) ==
    {TransportError, TimedOut}
    \cup {Http(s, b) : s \in Statuses,
                       b \in {[tag |-> "nonjson", result |-> <<>>], PromResult(<<>>)}
                             \cup {PromResult(<<Num(m)>>) : m \in vals}}

-----------------------------------------------------------------------------
(* Backend clients of the engine.  Each returns its value and, where the   *)
(* code lets an exception through, the operation's caller sees it.         *)

\* response.json().get('data', {}).get('result', []) inside the try block:
\* "raise" stands for any exception, which the except clause of the caller catches
PromResultOf(r) ==
    IF r.net # "ok" \/ r.body.tag \in {"nonjson", "null_data"} THEN [tag |-> "raise", items |-> <<>>]
    ELSE List(r.body.result)

\* a slip that keeps a running total of the errors counted by earlier calls
_get_error_metrics_running_total(r) ==
    LET res == PromResultOf(r)
        before == IF pc = "done" /\ op = "correlate_error_spike" /\ Truthy(ret.metrics)
                  THEN ret.metrics.error_count ELSE 0
    IN  IF res.tag = "raise" THEN None
        ELSE IF res.items = <<>> THEN None
        ELSE IF res.items[1].tag # "num" THEN None
        ELSE [tag |-> "dict", error_count |-> before + IntOf(res.items[1].milli), time_window |-> 5]

_get_error_metrics(r) ==
    LET res == PromResultOf(r) IN
    IF res.tag = "raise" THEN None
    ELSE IF res.items = <<>> THEN None
    ELSE IF res.items[1].tag # "num" THEN None
    ELSE [tag |-> "dict", error_count |-> IntOf(res.items[1].milli), time_window |-> 5]

_get_slow_request_metrics(r) ==
    LET res == PromResultOf(r) IN
    IF res.tag = "raise" THEN None
    ELSE IF res.items = <<>> THEN None
    ELSE IF res.items[1].tag # "num" THEN None
    ELSE [tag |-> "dict", p95_ms |-> res.items[1].milli]

\* '{rate:.1f}' of rejected / total * 100: tenths of a percent, nearest, ties to even
RateTenths(rejected, total) ==
    LET n == rejected * 1000
        q == n \div total
        twice == 2 * (n % total)
    IN  IF twice > total \/ (twice = total /\ q % 2 = 1) THEN q + 1 ELSE q

_get_rejection_metrics(rr, tr) ==
    LET rres == PromResultOf(rr)
        tres == PromResultOf(tr)
    IN  IF rres.tag = "raise" \/ tres.tag = "raise" THEN None
        ELSE IF rres.items = <<>> \/ tres.items = <<>> THEN None
        ELSE IF rres.items[1].tag # "num" \/ tres.items[1].tag # "num" THEN None
        ELSE LET rejected == rres.items[1].milli
                 total == tres.items[1].milli
             IN  [tag |-> "dict",
                  rejected_count |-> IntOf(rejected),
                  total_count |-> IntOf(total),
                  rejection_rate |-> IF total > 0 THEN RateTenths(rejected, total) ELSE 0]

\* the requests _get_rejection_metrics sends: the second only if the first
\* did not raise
RejectionMetricQueries(rr) ==
    IF rr.net # "ok" THEN <<"rejected_metric">> ELSE <<"rejected_metric", "total_metric">>

\* _get_error_logs, _get_rejection_logs and _get_performance_logs differ in the
\* query they send only
LogHitsOf(r) ==
    IF r.net # "ok" \/ r.body.tag = "nonjson" THEN List(<<>>)
    ELSE IF r.body.tag = "no_hits" THEN List(<<>>)
    ELSE IF r.body.tag = "null_hits" THEN None
    ELSE List(r.body.hits)

_get_error_logs(r) == LogHitsOf(r)
_get_rejection_logs(r) == LogHitsOf(r)
_get_performance_logs(r) == LogHitsOf(r)

\* the trace clients are stubs that send no request
_get_failed_traces == List(<<>>)
_get_rejection_traces == List(<<>>)
_get_slow_traces == List(<<>>)

-----------------------------------------------------------------------------
(* Analysis methods of the engine *)

Finding(source, data, insight) == [source |-> source, data |-> data, insight |-> insight]
\* an f-string: its template and the values it interpolates
Insight(tpl, n, s) == [tpl |-> tpl, n |-> n, s |-> s]

Sources(findings) == [i \in 1..Len(findings) |-> findings[i].source]
InSeq(x, s) == \E i \in 1..Len(s) : s[i] = x

\* log.get('_source', {}).get('message', '')
MessageOf(doc) ==
    CASE doc.tag = "str" -> [tag |-> "str", toks |-> doc.message]
      [] doc.tag = "null" -> None
      [] OTHER -> [tag |-> "str", toks |-> <<>>]

Messages(logs) == [i \in 1..Len(logs) |-> MessageOf(logs[i])]

\* 'Invalid' in msg raises TypeError when msg is None
AnyNone(messages) == \E i \in 1..Len(messages) : messages[i].tag = "None"

RECURSIVE PatternCounts(_, _)
PatternCounts(messages, patterns) ==
    IF messages = <<>> THEN patterns
    ELSE LET msg == Head(messages).toks
             p1 == IF Contains(msg, "Invalid") THEN DictInc(patterns, "invalid_policy") ELSE patterns
             p2 == IF Contains(msg, "rejected") THEN DictInc(p1, "rejection") ELSE p1
             p3 == IF Contains(Lower(msg), "database") THEN DictInc(p2, "database_error") ELSE p2
         IN  PatternCounts(Tail(messages), p3)

\* the list of "<k>: <v> occurrences" strings, each held as its k and v
_extract_patterns(messages) == SortedDesc(PatternCounts(messages, <<>>))

ReasonInvalid == <<"Invalid", "or", "inactive", "policy">>
ReasonExceeds == <<"Exceeds", "coverage">>
ReasonFailed == <<"Policy", "validation", "failed">>

RECURSIVE ReasonCounts(_, _)
ReasonCounts(messages, reasons) ==
    IF messages = <<>> THEN reasons
    ELSE LET message == Head(messages).toks
             r == IF Contains(message, "Invalid") THEN DictInc(reasons, ReasonInvalid)
                  ELSE IF Contains(message, "exceeds") THEN DictInc(reasons, ReasonExceeds)
                  ELSE IF Contains(message, "rejected") THEN DictInc(reasons, ReasonFailed)
                  ELSE reasons
         IN  ReasonCounts(Tail(messages), r)

\* a slip that returns the reasons in first-seen order, unsorted
_extract_rejection_reasons_unsorted(logs) == ReasonCounts(Messages(logs), <<>>)

\* the list of (reason, count) pairs; logs is the list of documents
_extract_rejection_reasons(logs) == SortedDesc(ReasonCounts(Messages(logs), <<>>))

\* for log in logs raises on None, and 'Invalid' in message on a null message
Raises_extract_rejection_reasons(logs) ==
    logs.tag = "None" \/ AnyNone(Messages(logs.items))

_identify_slow_operations == <<"database_query", "external_api_call", "claim_processing">>
_identify_bottlenecks == <<"Policy validation taking 80% of request time">>
_identify_rejection_points ==
    [location |-> "process_claim_locally function", step |-> "policy validation", duration_ms |-> 50]

NoCorrelationData == [tpl |-> "No correlation data available"]
PartialCorrelationData == [tpl |-> "Partial correlation data available"]
MetricsTracesInsight ==
    [tpl |-> "Correlation: Metrics identified the problem, Traces pinpointed the exact code location"]

WhatWhyTemplate == "Correlation: Metrics show the WHAT (..), Logs reveal the WHY (..)"

\* a slip that tests for metrics and traces before metrics and logs
_generate_correlated_insight_traces_first(findings) ==
    IF findings = <<>> THEN NoCorrelationData
    ELSE LET sources == Sources(findings) IN
         IF InSeq("metrics", sources) /\ InSeq("traces", sources)
         THEN MetricsTracesInsight
         ELSE IF InSeq("metrics", sources) /\ InSeq("logs", sources)
         THEN [tpl |-> WhatWhyTemplate,
               what |-> findings[1].insight, why |-> findings[2].insight]
         ELSE PartialCorrelationData

_generate_correlated_insight(findings) ==
    IF findings = <<>> THEN NoCorrelationData
    ELSE LET sources == Sources(findings) IN
         IF InSeq("metrics", sources) /\ InSeq("logs", sources)
         THEN [tpl |-> WhatWhyTemplate,
               what |-> findings[1].insight, why |-> findings[2].insight]
         ELSE IF InSeq("metrics", sources) /\ InSeq("traces", sources)
         THEN MetricsTracesInsight
         ELSE PartialCorrelationData

\* next((f for f in findings if f['source'] == source), None)
FirstOf(findings, source) ==
    IF \E i \in 1..Len(findings) : findings[i].source = source
    THEN findings[CHOOSE i \in 1..Len(findings) :
                    /\ findings[i].source = source
                    /\ \A j \in 1..(i - 1) : findings[j].source # source]
    ELSE None

IsNone(v) == v = None

AnalyzingRejectionPatterns ==
    [tpl |-> "Analyzing rejection patterns across metrics, logs, and traces..."]

_generate_rejection_insight(findings) ==
    LET metric_data == FirstOf(findings, "metrics")
        log_data == FirstOf(findings, "logs")
    IN  IF ~IsNone(metric_data) /\ ~IsNone(log_data)
        THEN LET reasons == log_data.data.top_reasons IN
             [tpl |-> "CORRELATION INSIGHT: ..% of claims are rejected. Logs reveal the primary reason is '..'",
              n |-> metric_data.data.rejection_rate,
              s |-> IF reasons # <<>> THEN reasons[1].k ELSE <<"Unknown">>]
        ELSE AnalyzingRejectionPatterns

DefaultRootCause == [tpl |-> "Invalid policy numbers being submitted"]

\* a slip that names the last of the top reasons
_determine_root_cause_last(findings) ==
    LET log_data == FirstOf(findings, "logs") IN
    IF ~IsNone(log_data) /\ log_data.data.top_reasons # <<>>
    THEN LET top_reason == log_data.data.top_reasons[Len(log_data.data.top_reasons)] IN
         [tpl |-> ".. (.. occurrences)", s |-> top_reason.k, n |-> top_reason.v]
    ELSE DefaultRootCause

_determine_root_cause(findings) ==
    LET log_data == FirstOf(findings, "logs") IN
    IF ~IsNone(log_data) /\ log_data.data.top_reasons # <<>>
    THEN LET top_reason == log_data.data.top_reasons[1] IN
         [tpl |-> ".. (.. occurrences)", s |-> top_reason.k, n |-> top_reason.v]
    ELSE DefaultRootCause

Action(priority, action, tpl, count) ==
    [priority |-> priority, action |-> action, details |-> [tpl |-> tpl, n |-> count]]

InvestigateFurther ==
    [priority |-> "medium", action |-> "Investigate Further",
     details |-> [tpl |-> "Need more data for specific recommendations"]]

RECURSIVE ActionsFor(_)
ActionsFor(reasons) ==
    IF reasons = <<>> THEN <<>>
    ELSE LET reason == Head(reasons).k
             count == Head(reasons).v
             a == IF Contains(reason, "Invalid")
                  THEN <<Action("high", "Fix Policy Validation",
                                ".. claims failed due to invalid policies", count)>>
                  ELSE IF Contains(reason, "exceeds")
                  THEN <<Action("medium", "Review Coverage Limits",
                                ".. claims exceeded coverage", count)>>
                  ELSE <<>>
         IN  a \o ActionsFor(Tail(reasons))

\* a slip that appends the generic action whatever the specific actions are
_suggest_actions_with_generic(findings) ==
    LET log_data == FirstOf(findings, "logs")
        actions == IF ~IsNone(log_data) THEN ActionsFor(log_data.data.top_reasons) ELSE <<>>
    IN  actions \o <<InvestigateFurther>>

_suggest_actions(findings) ==
    LET log_data == FirstOf(findings, "logs")
        actions == IF ~IsNone(log_data) THEN ActionsFor(log_data.data.top_reasons) ELSE <<>>
    IN  IF actions # <<>> THEN actions ELSE <<InvestigateFurther>>

-----------------------------------------------------------------------------
(* Public operations of the engine.  Each is computed from the responses   *)
(* its queries receive and yields what the operation did: the queries it   *)
(* issued, what the clients returned, whether it returned or raised, and   *)
(* the value it returned.                                                   *)

NoResult == [type |-> "none"]
Raised(queries, returned) ==
    [outcome |-> "raised", issued |-> queries, ret |-> returned, result |-> NoResult]
Returned(queries, returned, value) ==
    [outcome |-> "returned", issued |-> queries, ret |-> returned, result |-> value]

FirstN(s, n) == SubSeq(s, 1, IF Len(s) < n THEN Len(s) ELSE n)

ErrorSpikeMetricsFinding(error_metrics) ==
    IF Truthy(error_metrics)
    THEN <<Finding("metrics", error_metrics,
                   Insight("Detected .. errors in last .. minutes",
                           error_metrics.error_count, <<>>))>>
    ELSE <<>>

ErrorSpikeLogsFinding(error_logs) ==
    IF Truthy(error_logs)
    THEN LET error_messages == Messages(error_logs.items) IN
         <<Finding("logs",
                   [count |-> Len(error_logs.items),
                    sample_messages |-> FirstN(error_messages, 3),
                    common_patterns |-> _extract_patterns(error_messages)],
                   Insight("Found .. error log entries with specific failure reasons",
                           Len(error_logs.items), <<>>))>>
    ELSE <<>>

\* a slip that appends the traces finding without the test `if failed_traces:`
ErrorSpikeTracesFinding_untested(failed_traces) ==
    <<Finding("traces",
              [count |-> Len(failed_traces.items),
               slow_operations |-> _identify_slow_operations],
              Insight("Traces show which specific operations failed and their timing",
                      0, <<>>))>>

ErrorSpikeTracesFinding(failed_traces) ==
    IF Truthy(failed_traces)
    THEN <<Finding("traces",
                   [count |-> Len(failed_traces.items),
                    slow_operations |-> _identify_slow_operations],
                   Insight("Traces show which specific operations failed and their timing",
                           0, <<>>))>>
    ELSE <<>>

\* a slip that appends the logs finding before the metrics finding
ErrorSpikeFindings_logs_first(error_metrics, error_logs, failed_traces) ==
    ErrorSpikeLogsFinding(error_logs) \o ErrorSpikeMetricsFinding(error_metrics)
    \o ErrorSpikeTracesFinding(failed_traces)

\* the findings of correlate_error_spike, appended in the order of its steps
ErrorSpikeFindings(error_metrics, error_logs, failed_traces) ==
    ErrorSpikeMetricsFinding(error_metrics) \o ErrorSpikeLogsFinding(error_logs)
    \o ErrorSpikeTracesFinding(failed_traces)

correlate_error_spike(mr, lr) ==
    LET error_metrics == _get_error_metrics(mr)
        error_logs == _get_error_logs(lr)
        failed_traces == _get_failed_traces
        findings == ErrorSpikeFindings(error_metrics, error_logs, failed_traces)
    IN  IF Truthy(error_logs) /\ AnyNone(Messages(error_logs.items))
        THEN Raised(<<"error_metrics", "error_logs">>,
                    [metrics |-> error_metrics, logs |-> error_logs])
        ELSE Returned(<<"error_metrics", "error_logs", "failed_traces">>,
                      [metrics |-> error_metrics, logs |-> error_logs, traces |-> failed_traces],
                      [type |-> "error_spike_investigation",
                       findings |-> findings,
                       correlated_insight |-> _generate_correlated_insight(findings)])

\* the findings of correlate_slow_requests, appended in the order of its steps
SlowRequestFindings(slow_metrics, perf_logs, slow_traces) ==
    LET metrics == IF Truthy(slow_metrics)
                   THEN <<Finding("metrics", slow_metrics,
                                  Insight("P95 response time: ..ms", slow_metrics.p95_ms, <<>>))>>
                   ELSE <<>>
        logs == IF Truthy(perf_logs)
                THEN <<Finding("logs", [count |-> Len(perf_logs.items)],
                               Insight("Logs show slow database queries or external API calls",
                                       0, <<>>))>>
                ELSE <<>>
        traces == IF Truthy(slow_traces)
                  THEN <<Finding("traces",
                                 [count |-> Len(slow_traces.items),
                                  bottlenecks |-> _identify_bottlenecks],
                                 Insight("Bottleneck identified: ..", 0, <<_identify_bottlenecks[1]>>))>>
                  ELSE <<>>
    IN  metrics \o logs \o traces

correlate_slow_requests(mr, lr) ==
    LET slow_metrics == _get_slow_request_metrics(mr)
        perf_logs == _get_performance_logs(lr)
        slow_traces == _get_slow_traces
        findings == SlowRequestFindings(slow_metrics, perf_logs, slow_traces)
    IN  Returned(<<"slow_metrics", "perf_logs", "slow_traces">>,
                 [metrics |-> slow_metrics, logs |-> perf_logs, traces |-> slow_traces],
                 [type |-> "performance_investigation",
                  findings |-> findings,
                  correlated_insight |-> _generate_correlated_insight(findings)])

\* the findings of correlate_claim_rejection_pattern, appended in the order of its steps
RejectionFindings(rejection_stats, rejection_logs, rejection_traces) ==
    LET reasons == _extract_rejection_reasons(rejection_logs.items)
        metrics == IF Truthy(rejection_stats)
                   THEN <<Finding("metrics", rejection_stats,
                                  Insight("Rejection rate: ..%", rejection_stats.rejection_rate, <<>>))>>
                   ELSE <<>>
        logs == IF Truthy(rejection_logs)
                THEN <<Finding("logs",
                               [count |-> Len(rejection_logs.items), top_reasons |-> reasons],
                               IF reasons # <<>>
                               THEN Insight("Most common reason: ..", reasons[1].v, reasons[1].k)
                               ELSE Insight("Most common reason: ..", 0, <<"Unknown">>))>>
                ELSE <<>>
        traces == IF Truthy(rejection_traces)
                  THEN <<Finding("traces", _identify_rejection_points,
                                 Insight("Rejections occur during policy validation step", 0, <<>>))>>
                  ELSE <<>>
    IN  metrics \o logs \o traces

correlate_claim_rejection_pattern(rr, tr, lr) ==
    LET rejection_stats == _get_rejection_metrics(rr, tr)
        rejection_logs == _get_rejection_logs(lr)
        rejection_traces == _get_rejection_traces
        findings == RejectionFindings(rejection_stats, rejection_logs, rejection_traces)
        metric_queries == RejectionMetricQueries(rr)
    IN  IF Truthy(rejection_logs) /\ Raises_extract_rejection_reasons(rejection_logs)
        THEN Raised(metric_queries \o <<"rejection_logs">>,
                    [metrics |-> rejection_stats, logs |-> rejection_logs])
        ELSE Returned(metric_queries \o <<"rejection_logs", "rejection_traces">>,
                      [metrics |-> rejection_stats, logs |-> rejection_logs,
                       traces |-> rejection_traces],
                      [type |-> "claim_rejection_analysis",
                       findings |-> findings,
                       correlated_insight |-> _generate_rejection_insight(findings),
                       root_cause |-> _determine_root_cause(findings),
                       recommended_actions |-> _suggest_actions(findings)])

StoryConclusion ==
    [root_cause |-> [tpl |-> "Users are submitting claims with invalid policy numbers (INVALID1, INVALID2, etc.)"],
     impact |-> "100% rejection rate, poor user experience",
     recommendation |-> "Add client-side validation to prevent invalid policy submissions",
     fix_estimate |-> "30 minutes to implement policy number validation"]

create_correlation_story(rr, tr, lr) ==
    LET rejection_stats == _get_rejection_metrics(rr, tr)
        rejection_logs == _get_rejection_logs(lr)
        reasons == _extract_rejection_reasons(rejection_logs.items)
        queries == RejectionMetricQueries(rr) \o <<"rejection_logs">>
        returned == [metrics |-> rejection_stats, logs |-> rejection_logs]
    IN  IF Raises_extract_rejection_reasons(rejection_logs)
        THEN Raised(queries, returned)
        ELSE Returned(queries, returned,
                      [type |-> "story",
                       chapters |->
                         <<[chapter |-> 1, source |-> "Prometheus", data |-> rejection_stats,
                            narrative |-> Insight("Metrics show 100% of claims are being rejected", 0, <<>>)],
                           [chapter |-> 2, source |-> "OpenSearch",
                            data |-> [log_count |-> Len(rejection_logs.items),
                                      top_reasons |-> reasons],
                            narrative |-> Insight("Logs reveal that rejections are caused by: ..", 0,
                                                  IF reasons # <<>> THEN reasons[1].k
                                                  ELSE <<"Invalid", "policies">>)],
                           [chapter |-> 3, source |-> "Jaeger",
                            data |-> [function |-> "process_claim_locally",
                                      step |-> "policy validation"],
                            narrative |-> Insight("Traces pinpoint that rejections occur in ..", 0, <<>>)]>>,
                       conclusion |-> StoryConclusion])

-----------------------------------------------------------------------------
(* The analyzer (ObservabilityAnalyzer) *)

\* self.thresholds['error_rate'] = 0.05, in thousandths
ErrorRateThreshold == 50
\* self.thresholds['response_time_p95'], in ms
ResponseTimeP95Threshold == 2000

AnalyzerRateVals == {0, 50, 80}
AnalyzerP95Vals == {2000, 2500}
AnalyzerCountVals == {k * 1000 : k \in 0..MaxCount}
\* the responses to the analyzer's rate and latency queries: a failure, or a
\* result of at most one sample under either status
PromSeries(vals) ==
    {TransportError}
    \cup {Http(s, PromResult(r)) : s \in Statuses, r \in {<<>>} \cup {<<Num(m)>> : m \in vals}}
AnalyzerDocs == {Doc(MsgDatabase)}

\* raise_for_status() raises on 4xx and 5xx
RaisesForStatus(r) == r.status >= 400

get_prometheus_metrics(r) ==
    IF r.net # "ok" THEN List(<<>>)
    ELSE IF RaisesForStatus(r) THEN List(<<>>)
    ELSE IF r.body.tag \in {"nonjson", "null_data"} THEN List(<<>>)
    ELSE List(r.body.result)

get_opensearch_logs(r) ==
    IF r.net # "ok" THEN List(<<>>)
    ELSE IF RaisesForStatus(r) THEN List(<<>>)
    ELSE IF r.body.tag = "nonjson" THEN List(<<>>)
    ELSE IF r.body.tag = "no_hits" THEN List(<<>>)
    ELSE IF r.body.tag = "null_hits" THEN None
    ELSE List(r.body.hits)

\* float(result.get('value', [0, 0])[1]), in thousandths; raises on a value
\* that is no number
RaisesFloat(sample) == sample.tag = "bad"
FloatOf(sample) == IF sample.tag = "num" THEN sample.milli ELSE 0

Problem(type, severity, value) == [type |-> type, severity |-> severity, value |-> value]

RECURSIVE ErrorRateProblems(_)
ErrorRateProblems(error_rates) ==
    IF error_rates = <<>> THEN <<>>
    ELSE LET error_rate == FloatOf(Head(error_rates)) IN
         (IF error_rate > ErrorRateThreshold
          THEN <<Problem("high_error_rate", "high", error_rate)>> ELSE <<>>)
         \o ErrorRateProblems(Tail(error_rates))

\* rejected_count / total_count > 0.7, and > 0.5: on the counts of the model the
\* float quotient compares with the literal as the exact quotient does
\* a slip that takes the upper threshold inclusively
RejectionSeverity_inclusive(rejected_count, total_count) ==
    IF 10 * rejected_count >= 7 * total_count THEN "high"
    ELSE IF 10 * rejected_count > 5 * total_count THEN "medium"
    ELSE "none"

RejectionSeverity(rejected_count, total_count) ==
    IF 10 * rejected_count > 7 * total_count THEN "high"
    ELSE IF 10 * rejected_count > 5 * total_count THEN "medium"
    ELSE "none"

RejectionProblems(rejected_count, total_count) ==
    IF total_count > 0 /\ RejectionSeverity(rejected_count, total_count) # "none"
    THEN <<[type |-> "high_claim_rejection_rate",
            severity |-> RejectionSeverity(rejected_count, total_count),
            value |-> RateTenths(rejected_count, total_count),
            rejected |-> IntOf(rejected_count), total |-> IntOf(total_count)]>>
    ELSE <<>>

\* a slip that takes the latency threshold inclusively
RECURSIVE ResponseTimeProblems_inclusive(_)
ResponseTimeProblems_inclusive(response_times) ==
    IF response_times = <<>> THEN <<>>
    ELSE LET response_time == FloatOf(Head(response_times)) IN
         (IF response_time >= ResponseTimeP95Threshold
          THEN <<Problem("slow_response_time", "medium", response_time)>> ELSE <<>>)
         \o ResponseTimeProblems_inclusive(Tail(response_times))

RECURSIVE ResponseTimeProblems(_)
ResponseTimeProblems(response_times) ==
    IF response_times = <<>> THEN <<>>
    ELSE LET response_time == FloatOf(Head(response_times)) IN
         (IF response_time > ResponseTimeP95Threshold
          THEN <<Problem("slow_response_time", "medium", response_time)>> ELSE <<>>)
         \o ResponseTimeProblems(Tail(response_times))

AnyBad(samples) == \E i \in 1..Len(samples) : RaisesFloat(samples[i])

analyze_metrics(er, rj, tc, rt) ==
    LET error_rates == get_prometheus_metrics(er)
        rejections == get_prometheus_metrics(rj)
        total_claims == get_prometheus_metrics(tc)
        response_times == get_prometheus_metrics(rt)
        both == Truthy(rejections) /\ Truthy(total_claims)
        problems ==
            ErrorRateProblems(error_rates.items)
            \o (IF both
                THEN RejectionProblems(FloatOf(rejections.items[1]), FloatOf(total_claims.items[1]))
                ELSE <<>>)
            \o ResponseTimeProblems(response_times.items)
    IN  IF AnyBad(error_rates.items)
        THEN Raised(<<"error_rate">>, [error_rates |-> error_rates])
        ELSE IF both /\ (RaisesFloat(rejections.items[1]) \/ RaisesFloat(total_claims.items[1]))
        THEN Raised(<<"error_rate", "rejections", "total_claims">>,
                    [error_rates |-> error_rates, rejections |-> rejections,
                     total_claims |-> total_claims])
        ELSE IF AnyBad(response_times.items)
        THEN Raised(<<"error_rate", "rejections", "total_claims", "response_time">>,
                    [error_rates |-> error_rates, rejections |-> rejections,
                     total_claims |-> total_claims, response_times |-> response_times])
        ELSE Returned(<<"error_rate", "rejections", "total_claims", "response_time">>,
                      [error_rates |-> error_rates, rejections |-> rejections,
                       total_claims |-> total_claims, response_times |-> response_times],
                      [type |-> "metric_problems", problems |-> problems])

\* a slip that reports database problems from 5 documents on
analyze_logs_from_five(el, dl) ==
    LET error_logs == get_opensearch_logs(el)
        db_errors == get_opensearch_logs(dl)
        problems ==
            (IF Len(error_logs.items) > 10
             THEN <<[type |-> "high_error_rate", severity |-> "high",
                     count |-> Len(error_logs.items)]>> ELSE <<>>)
            \o (IF Len(db_errors.items) >= 5
                THEN <<[type |-> "database_connection_issues", severity |-> "high",
                        count |-> Len(db_errors.items)]>> ELSE <<>>)
    IN  IF error_logs.tag = "None"
        THEN Raised(<<"error_logs">>, [error_logs |-> error_logs])
        ELSE IF db_errors.tag = "None"
        THEN Raised(<<"error_logs", "db_errors">>,
                    [error_logs |-> error_logs, db_errors |-> db_errors])
        ELSE Returned(<<"error_logs", "db_errors">>,
                      [error_logs |-> error_logs, db_errors |-> db_errors],
                      [type |-> "log_problems", problems |-> problems])

\* len(None) raises TypeError
analyze_logs(el, dl) ==
    LET error_logs == get_opensearch_logs(el)
        db_errors == get_opensearch_logs(dl)
        problems ==
            (IF Len(error_logs.items) > 10
             THEN <<[type |-> "high_error_rate", severity |-> "high",
                     count |-> Len(error_logs.items)]>> ELSE <<>>)
            \o (IF Len(db_errors.items) > 5
                THEN <<[type |-> "database_connection_issues", severity |-> "high",
                        count |-> Len(db_errors.items)]>> ELSE <<>>)
    IN  IF error_logs.tag = "None"
        THEN Raised(<<"error_logs">>, [error_logs |-> error_logs])
        ELSE IF db_errors.tag = "None"
        THEN Raised(<<"error_logs", "db_errors">>,
                    [error_logs |-> error_logs, db_errors |-> db_errors])
        ELSE Returned(<<"error_logs", "db_errors">>,
                      [error_logs |-> error_logs, db_errors |-> db_errors],
                      [type |-> "log_problems", problems |-> problems])

\* datetime.now(): a reading of the wall clock
Clock == 0..MaxClock

\* 'timestamp': datetime.now().isoformat() in the value of an engine operation
\* and in every problem of the analyzer
Timestamped(value, t) ==
    IF value.type \in {"metric_problems", "log_problems"}
    THEN LET problems == value.problems IN
         [value EXCEPT !.problems =
            [i \in 1..Len(problems) |-> [timestamp |-> t] @@ problems[i]]]
    ELSE [timestamp |-> t] @@ value

\* self.problem_patterns as __init__ builds it
ProblemPatterns ==
    [high_error_rate |->
        [description |-> "High error rate detected",
         solutions |-> <<"Check application logs for error patterns",
                         "Verify external service dependencies",
                         "Review recent code deployments">>],
     slow_response_time |->
        [description |-> "Response time is above threshold",
         solutions |-> <<"Check database query performance",
                         "Review external API response times",
                         "Consider adding caching">>],
     high_memory_usage |->
        [description |-> "Memory usage is high",
         solutions |-> <<"Check for memory leaks",
                         "Review garbage collection settings",
                         "Consider scaling horizontally">>],
     database_connection_issues |->
        [description |-> "Database connection problems",
         solutions |-> <<"Check database server status",
                         "Review connection pool settings",
                         "Verify network connectivity">>],
     high_claim_rejection_rate |->
        [description |-> "Unusually high claim rejection rate detected",
         solutions |-> <<"Review recent policy changes or updates",
                         "Check if policy validation logic is too strict",
                         "Verify policy numbers in submission requests",
                         "Investigate if fraud detection is too aggressive",
                         "Review claim amount limits and coverage amounts">>]]

\* a slip that takes the pattern out of the registry as it reads it
\* (self.problem_patterns.pop(problem_type))
PatternsAfterRead_pop(patterns, problem_type) ==
    [k \in DOMAIN patterns \ {problem_type} |-> patterns[k]]

\* the registry after pattern = self.problem_patterns[problem_type]: a
\* subscription leaves the dict as it is
PatternsAfterRead(patterns, problem_type) == patterns

\* the recommendations for `problems`, with the registry as the loop leaves it;
\* 'solutions' of a recommendation is the very list of the registry, which
\* nothing writes to before jsonify reads it
RECURSIVE generate_recommendations(_, _, _)
generate_recommendations(patterns, problems, t) ==
    IF problems = <<>> THEN [recommendations |-> <<>>, problem_patterns |-> patterns]
    ELSE LET problem == Head(problems)
             problem_type == problem.type
         IN  IF problem_type \in DOMAIN patterns
             THEN LET pattern == patterns[problem_type]
                      rest == generate_recommendations(
                                  PatternsAfterRead(patterns, problem_type), Tail(problems), t)
                  IN  [recommendations |->
                          <<[problem |-> pattern.description,
                             severity |-> problem.severity,
                             solutions |-> pattern.solutions,
                             timestamp |-> t]>> \o rest.recommendations,
                       problem_patterns |-> rest.problem_patterns]
             ELSE generate_recommendations(patterns, Tail(problems), t)

\* len([p for p in all_problems if p.get('severity') == severity])
RECURSIVE CountSeverity(_, _)
CountSeverity(problems, severity) ==
    IF problems = <<>> THEN 0
    ELSE (IF Head(problems).severity = severity THEN 1 ELSE 0)
         + CountSeverity(Tail(problems), severity)

\* run_analysis on the responses to its six queries, datetime.now() reading t;
\* an exception of analyze_metrics or of analyze_logs leaves it as it is
run_analysis(patterns, er, rj, tc, rt, el, dl, t) ==
    LET metrics == analyze_metrics(er, rj, tc, rt)
        logs == analyze_logs(el, dl)
        metric_problems == Timestamped(metrics.result, t).problems
        log_problems == Timestamped(logs.result, t).problems
        all_problems == metric_problems \o log_problems
        recommended == generate_recommendations(patterns, all_problems, t)
    IN  IF metrics.outcome = "raised"
        THEN [did |-> metrics, problem_patterns |-> patterns]
        ELSE IF logs.outcome = "raised"
        THEN [did |-> Raised(metrics.issued \o logs.issued, [metrics |-> metrics.ret, logs |-> logs.ret]),
              problem_patterns |-> patterns]
        ELSE [did |-> Returned(metrics.issued \o logs.issued,
                               [metrics |-> metrics.ret, logs |-> logs.ret],
                               [type |-> "analysis",
                                timestamp |-> t,
                                problems |-> all_problems,
                                recommendations |-> recommended.recommendations,
                                summary |->
                                   [total_problems |-> Len(all_problems),
                                    high_severity |-> CountSeverity(all_problems, "high"),
                                    medium_severity |-> CountSeverity(all_problems, "medium"),
                                    low_severity |-> CountSeverity(all_problems, "low")]]),
              problem_patterns |-> recommended.problem_patterns]

-----------------------------------------------------------------------------
(* The process: requests served one at a time *)

Idle == [none |-> TRUE]
NoEarlier == [outcome |-> "none", result |-> NoResult]

\* the threads of the server (app.run serves each request in its own thread)
Threads == 1..MaxThreads

NoResponse == [net |-> "none", status |-> 0, body |-> NoBody]
IdleWorker ==
    [pc |-> "idle", op |-> "none", stamp |-> 0,
     env |-> [metrics |-> NoResponse, logs |-> NoResponse],
     findings |-> <<>>, result |-> NoResult]

\* a thread of the local claims service that serves no request
IdleSubmitter ==
    [pc |-> "idle", request |-> 0, claim_id |-> 0, status |-> "none", seen |-> 0, counted |-> 0]

Init ==
    /\ pc = "idle"
    /\ op = "none"
    /\ env = Idle
    /\ issued = <<>>
    /\ ret = Idle
    /\ outcome = "none"
    /\ result = NoResult
    /\ earlier = NoEarlier
    /\ workers = [t \in Threads |-> IdleWorker]
    /\ problem_patterns = ProblemPatterns
    /\ claims_db = <<>>
    /\ ACTIVE_CLAIMS = 0
    /\ submitters = [t \in Threads |-> IdleSubmitter]
    /\ answered = {}

\* the operation `name` runs on the responses `e` and does `did`; the value it
\* returns carries the reading of the clock
Run(name, e, did) ==
    /\ pc' = "done"
    /\ op' = name
    /\ env' = e
    /\ issued' = did.issued
    /\ ret' = did.ret
    /\ outcome' = did.outcome
    /\ \E t \in Clock :
         result' = IF did.outcome = "returned" THEN Timestamped(did.result, t) ELSE did.result
    /\ UNCHANGED elsewhere

Ran(name, e, did) == Run(name, e, did) /\ earlier' = NoEarlier

CorrelateErrorSpike ==
    /\ pc = "idle"
    /\ \E mr \in PromResponses(EngineVals), lr \in LogResponses(ErrorDocs, MaxLogs) :
         Ran("correlate_error_spike", [metrics |-> mr, logs |-> lr],
             correlate_error_spike(mr, lr))

CorrelateSlowRequests ==
    /\ pc = "idle"
    /\ \E mr \in PromResponses(EngineVals), lr \in LogResponses(PerfDocs, MaxLogs) :
         Ran("correlate_slow_requests", [metrics |-> mr, logs |-> lr],
             correlate_slow_requests(mr, lr))

CorrelateClaimRejectionPattern ==
    /\ pc = "idle"
    /\ \E rr \in CountResponses(RejectedCountVals), tr \in CountResponses(TotalCountVals),
          lr \in LogResponses(RejectionDocs, MaxLogs) :
         Ran("correlate_claim_rejection_pattern",
             [rejected |-> rr, total |-> tr, logs |-> lr],
             correlate_claim_rejection_pattern(rr, tr, lr))

CreateCorrelationStory ==
    /\ pc = "idle"
    /\ \E rr \in CountResponses(RejectedCountVals), tr \in CountResponses(TotalCountVals),
          lr \in LogResponses(RejectionDocs, MaxStoryLogs) :
         Ran("create_correlation_story",
             [rejected |-> rr, total |-> tr, logs |-> lr],
             create_correlation_story(rr, tr, lr))

AnalyzeMetrics ==
    /\ pc = "idle"
    /\ \E er \in PromSeries(AnalyzerRateVals), rj \in PromResponses(AnalyzerCountVals),
          tc \in PromResponses(AnalyzerCountVals), rt \in PromSeries(AnalyzerP95Vals) :
         Ran("analyze_metrics",
             [error_rate |-> er, rejections |-> rj, total_claims |-> tc, response_time |-> rt],
             analyze_metrics(er, rj, tc, rt))

AnalyzeLogs ==
    /\ pc = "idle"
    /\ \E el \in LogResponses(AnalyzerDocs, MaxDocs), dl \in LogResponses(AnalyzerDocs, MaxDocs) :
         Ran("analyze_logs", [error_logs |-> el, db_errors |-> dl], analyze_logs(el, dl))

\* the responses to the six queries of /api/analysis
AnalysisRateResponses == PromSeries({80})
AnalysisCountResponses == {TransportError, Http(200, PromResult(<<Num(8000)>>)),
                           Http(200, PromResult(<<Num(10000)>>))}
AnalysisP95Responses == {Http(200, PromResult(<<>>)), Http(200, PromResult(<<Num(2500)>>)),
                         Http(200, PromResult(<<BadSample>>))}
AnalysisLogResponses ==
    {TransportError, Http(200, [tag |-> "null_hits"]),
     Http(200, Hits([i \in 1..MaxDocs |-> Doc(MsgDatabase)]))}

RunAnalysis ==
    /\ pc = "idle"
    /\ \E er \in AnalysisRateResponses, rj \in AnalysisCountResponses,
          tc \in AnalysisCountResponses, rt \in AnalysisP95Responses,
          el \in AnalysisLogResponses, dl \in AnalysisLogResponses, t \in Clock :
         LET ran == run_analysis(problem_patterns, er, rj, tc, rt, el, dl, t) IN
         /\ pc' = "done"
         /\ op' = "run_analysis"
         /\ env' = [error_rate |-> er, rejections |-> rj, total_claims |-> tc,
                    response_time |-> rt, error_logs |-> el, db_errors |-> dl]
         /\ issued' = ran.did.issued
         /\ ret' = ran.did.ret
         /\ outcome' = ran.did.outcome
         /\ result' = ran.did.result
         /\ problem_patterns' = ran.problem_patterns
    /\ earlier' = NoEarlier
    /\ UNCHANGED <<workers, claims_service>>

\* the problems a caller can hand to generate_recommendations
ProblemLists ==
    SeqsUpTo({Problem("high_error_rate", "high", 80),
              Problem("slow_response_time", "medium", 2500),
              Problem("database_connection_issues", "high", 6),
              Problem("disk_full", "low", 1)}, 2)

GenerateRecommendations ==
    /\ pc = "idle"
    /\ \E problems \in ProblemLists, t \in Clock :
         LET recommended == generate_recommendations(problem_patterns, problems, t) IN
         /\ pc' = "done"
         /\ op' = "generate_recommendations"
         /\ env' = [problems |-> problems]
         /\ issued' = <<>>
         /\ ret' = Idle
         /\ outcome' = "returned"
         /\ result' = [type |-> "recommendations",
                       recommendations |-> recommended.recommendations]
         /\ problem_patterns' = recommended.problem_patterns
    /\ earlier' = NoEarlier
    /\ UNCHANGED <<workers, claims_service>>

\* the route handler returns jsonify(...) of the value: nothing of the request
\* is kept
Respond ==
    /\ pc = "done"
    /\ pc' = "idle"
    /\ op' = "none"
    /\ env' = Idle
    /\ issued' = <<>>
    /\ ret' = Idle
    /\ outcome' = "none"
    /\ result' = NoResult
    /\ earlier' = NoEarlier
    /\ UNCHANGED elsewhere

\* the caller of an investigation invokes it once more and the backends answer
\* the second invocation as they answered the first
InvokeAgain ==
    /\ pc = "done"
    /\ op \in {"correlate_error_spike", "correlate_slow_requests",
                "correlate_claim_rejection_pattern"}
    /\ earlier = NoEarlier
    /\ Run(op, env,
           CASE op = "correlate_error_spike" -> correlate_error_spike(env.metrics, env.logs)
             [] op = "correlate_slow_requests" -> correlate_slow_requests(env.metrics, env.logs)
             [] OTHER -> correlate_claim_rejection_pattern(env.rejected, env.total, env.logs))
    /\ earlier' = [outcome |-> outcome, result |-> result]

\* what a trace backend in place of the stubs would return
TraceSummary == [tag |-> "trace"]
TraceLists == {List(<<>>), List(<<TraceSummary>>)}

\* what the clients of an investigation can hand to its steps
ErrorMetricsValues ==
    {None} \cup {_get_error_metrics(Http(200, PromResult(<<Num(m)>>))) : m \in EngineVals}
SlowMetricsValues ==
    {None} \cup {_get_slow_request_metrics(Http(200, PromResult(<<Num(m)>>))) : m \in EngineVals}
LogValues(docs) == {List(s) : s \in SeqsUpTo(docs, MaxLogs)}

\* step 4 of correlate_error_spike and of correlate_slow_requests on the
\* findings that steps 1 to 3 built, the trace client being a stub or not
GenerateCorrelatedInsight ==
    /\ pc = "idle"
    /\ \E of \in {"correlate_error_spike", "correlate_slow_requests"}, t \in TraceLists :
       \E m \in (IF of = "correlate_error_spike" THEN ErrorMetricsValues ELSE SlowMetricsValues),
          l \in LogValues(IF of = "correlate_error_spike"
                          THEN {Doc(MsgInvalid), Doc(MsgDatabase)} ELSE {Doc(MsgDatabase)}) :
         LET findings == IF of = "correlate_error_spike"
                         THEN ErrorSpikeFindings(m, l, t) ELSE SlowRequestFindings(m, l, t)
         IN
         /\ pc' = "done"
         /\ op' = "_generate_correlated_insight"
         /\ env' = [findings |-> findings]
         /\ issued' = <<>>
         /\ ret' = [metrics |-> m, logs |-> l, traces |-> t]
         /\ outcome' = "returned"
         /\ result' = [type |-> "insight", findings |-> findings,
                       correlated_insight |-> _generate_correlated_insight(findings)]
         /\ earlier' = NoEarlier
         /\ UNCHANGED elsewhere

-----------------------------------------------------------------------------
(* Investigations served concurrently: each thread runs the steps of its   *)
(* investigation on its local dict `correlation`; the engine they share    *)
(* holds the three URLs only.  A step is one backend call with the         *)
(* statements that follow it.                                              *)

WorkerMetricResponses == {TransportError, Http(200, PromResult(<<Num(1000)>>))}
WorkerLogResponses == {TransportError, Http(200, Hits(<<Doc(MsgInvalid)>>))}

\* the finding step 1, 2 or 3 of the investigation `o` appends
MetricsStep(o, mr) ==
    CASE o = "correlate_error_spike" ->
           ErrorSpikeFindings(_get_error_metrics(mr), List(<<>>), List(<<>>))
      [] o = "correlate_slow_requests" ->
           SlowRequestFindings(_get_slow_request_metrics(mr), List(<<>>), List(<<>>))
      [] OTHER -> RejectionFindings(_get_rejection_metrics(mr, mr), List(<<>>), List(<<>>))

LogsStep(o, lr) ==
    CASE o = "correlate_error_spike" ->
           ErrorSpikeFindings(None, _get_error_logs(lr), List(<<>>))
      [] o = "correlate_slow_requests" ->
           SlowRequestFindings(None, _get_performance_logs(lr), List(<<>>))
      [] OTHER -> RejectionFindings(None, _get_rejection_logs(lr), List(<<>>))

TracesStep(o) ==
    CASE o = "correlate_error_spike" ->
           ErrorSpikeFindings(None, List(<<>>), _get_failed_traces)
      [] o = "correlate_slow_requests" ->
           SlowRequestFindings(None, List(<<>>), _get_slow_traces)
      [] OTHER -> RejectionFindings(None, List(<<>>), _get_rejection_traces)

\* the value the investigation `o` returns, its findings being `findings`
ValueOf(o, findings) ==
    CASE o = "correlate_error_spike" ->
           [type |-> "error_spike_investigation", findings |-> findings,
            correlated_insight |-> _generate_correlated_insight(findings)]
      [] o = "correlate_slow_requests" ->
           [type |-> "performance_investigation", findings |-> findings,
            correlated_insight |-> _generate_correlated_insight(findings)]
      [] OTHER ->
           [type |-> "claim_rejection_analysis", findings |-> findings,
            correlated_insight |-> _generate_rejection_insight(findings),
            root_cause |-> _determine_root_cause(findings),
            recommended_actions |-> _suggest_actions(findings)]

\* a slip that keeps the findings in one list of the engine, which every
\* thread appends to
OwnFindings_of_the_engine(t) == workers[1].findings

\* correlation['findings'] of the thread t: a local of its call
OwnFindings(t) == workers[t].findings

\* the thread creates its dict, with the reading of the clock, and runs step 1
WorkerQueryMetrics(t) ==
    /\ workers[t].pc = "idle"
    /\ \E o \in {"correlate_error_spike", "correlate_slow_requests",
                  "correlate_claim_rejection_pattern"},
          stamp \in Clock, mr \in WorkerMetricResponses :
         workers' = [workers EXCEPT ![t] =
                       [pc |-> "logs", op |-> o, stamp |-> stamp,
                        env |-> [metrics |-> mr, logs |-> NoResponse],
                        findings |-> MetricsStep(o, mr), result |-> NoResult]]
    /\ UNCHANGED <<alone, problem_patterns, claims_service>>

WorkerQueryLogs(t) ==
    /\ workers[t].pc = "logs"
    /\ \E lr \in WorkerLogResponses :
         workers' = [workers EXCEPT
                       ![t].pc = "traces",
                       ![t].env.logs = lr,
                       ![t].findings = OwnFindings(t) \o LogsStep(workers[t].op, lr)]
    /\ UNCHANGED <<alone, problem_patterns, claims_service>>

\* step 3, the derived fields, and return
WorkerFinish(t) ==
    /\ workers[t].pc = "traces"
    /\ LET findings == OwnFindings(t) \o TracesStep(workers[t].op) IN
       workers' = [workers EXCEPT
                     ![t].pc = "done",
                     ![t].findings = findings,
                     ![t].result = Timestamped(ValueOf(workers[t].op, findings),
                                               workers[t].stamp)]
    /\ UNCHANGED <<alone, problem_patterns, claims_service>>

\* the route handler returns jsonify(...) and the thread is free again
WorkerRespond(t) ==
    /\ workers[t].pc = "done"
    /\ workers' = [workers EXCEPT ![t] = IdleWorker]
    /\ UNCHANGED <<alone, problem_patterns, claims_service>>

-----------------------------------------------------------------------------
(* The local claims service (src/app/app_local.py): submit_claim served by  *)
(* the threads of the development server.  A step is what a thread does     *)
(* between two points where another thread can run: the statements on its   *)
(* locals, then one access to claims_db or to the gauge.                    *)

policies_db ==
    [POL001 |-> [status |-> "active", type |-> "auto", coverage |-> 50000],
     POL002 |-> [status |-> "active", type |-> "home", coverage |-> 250000],
     POL003 |-> [status |-> "active", type |-> "health", coverage |-> 100000]]

\* request.form: the policy number, the text of the amount, and what saving
\* the uploaded document does
PolicyNumbers == {"POL001", "POL999"}
AmountTexts == {[tag |-> "text"], [tag |-> "num", value |-> 999],
                [tag |-> "num", value |-> 1000], [tag |-> "num", value |-> 50001]}
Uploads == {"none", "saved", "fails"}
\* random.randint(70, 95) on either side of the test confidence >= 80
Confidences == {79, 80}

\* the status process_claim_locally decides
process_claim_locally(policy_number, claim_amount, confidence) ==
    IF policy_number \notin DOMAIN policies_db THEN "rejected"
    ELSE LET policy == policies_db[policy_number] IN
         IF claim_amount > policy.coverage THEN "rejected"
         ELSE IF claim_amount < 1000 THEN "approved"
         ELSE IF confidence >= 80 THEN "approved"
         ELSE "pending_review"

\* the submissions received so far
Requests == Cardinality(answered) + Cardinality({t \in Threads : submitters[t].pc # "idle"})

Answer(w, code, stored) ==
    [request |-> w.request, claim_id |-> w.claim_id, code |-> code, stored |-> stored]

\* len([c for c in claims_db.values() if c.get('status') == 'pending_review'])
PendingReview(db) == Cardinality({id \in DOMAIN db : db[id].status = "pending_review"})

\* the form is read, the document saved and the claim processed: float() of an
\* amount that is no number, or file.save, raises and the handler answers 500;
\* uuid.uuid4() is an id no other request has
SubmitClaim(t) ==
    /\ submitters[t].pc = "idle"
    /\ Requests < MaxRequests
    /\ \E policy_number \in PolicyNumbers, amount \in AmountTexts, upload \in Uploads,
          confidence \in Confidences :
         LET request == Requests + 1 IN
         IF amount.tag = "text" \/ upload = "fails"
         THEN /\ answered' = answered \cup
                    {[request |-> request,
                      claim_id |-> IF amount.tag = "text" THEN 0 ELSE request,
                      code |-> 500, stored |-> FALSE]}
              /\ UNCHANGED submitters
         ELSE /\ submitters' = [submitters EXCEPT ![t] =
                    [pc |-> "store", request |-> request, claim_id |-> request,
                     status |-> process_claim_locally(policy_number, amount.value, confidence),
                     seen |-> 0, counted |-> 0]]
              /\ UNCHANGED answered
    /\ UNCHANGED <<alone, workers, problem_patterns, claims_db, ACTIVE_CLAIMS>>

\* claims_db[claim_id] = claim_data
StoreClaim(t) ==
    /\ submitters[t].pc = "store"
    /\ claims_db' = [id \in DOMAIN claims_db \cup {submitters[t].claim_id} |->
                        IF id = submitters[t].claim_id
                        THEN [status |-> submitters[t].status]
                        ELSE claims_db[id]]
    /\ submitters' = [submitters EXCEPT ![t].pc = "count"]
    /\ UNCHANGED <<alone, workers, problem_patterns, ACTIVE_CLAIMS, answered>>

\* the comprehension starts to iterate over claims_db.values(): the iterator
\* notes the size of the dict
CountBegin(t) ==
    /\ submitters[t].pc = "count"
    /\ submitters' = [submitters EXCEPT ![t].pc = "counting",
                                         ![t].seen = Cardinality(DOMAIN claims_db)]
    /\ UNCHANGED <<alone, workers, problem_patterns, claims_db, ACTIVE_CLAIMS, answered>>

\* the iteration ends: on a dict whose size has changed the iterator raises
\* RuntimeError, which the handler answers with 500; stored claims are never
\* modified, so otherwise the count is that of the dict as it is
CountEnd(t) ==
    /\ submitters[t].pc = "counting"
    /\ IF Cardinality(DOMAIN claims_db) # submitters[t].seen
       THEN /\ answered' = answered \cup {Answer(submitters[t], 500, TRUE)}
            /\ submitters' = [submitters EXCEPT ![t] = IdleSubmitter]
       ELSE /\ submitters' = [submitters EXCEPT ![t].pc = "set",
                                                ![t].counted = PendingReview(claims_db)]
            /\ UNCHANGED answered
    /\ UNCHANGED <<alone, workers, problem_patterns, claims_db, ACTIVE_CLAIMS>>

\* ACTIVE_CLAIMS.set(...) of the length computed, and the answer
SetGauge(t) ==
    /\ submitters[t].pc = "set"
    /\ ACTIVE_CLAIMS' = submitters[t].counted
    /\ answered' = answered \cup {Answer(submitters[t], 200, TRUE)}
    /\ submitters' = [submitters EXCEPT ![t] = IdleSubmitter]
    /\ UNCHANGED <<alone, workers, problem_patterns, claims_db>>

NextClaims ==
    \/ \E t \in Threads : SubmitClaim(t)
    \/ \E t \in Threads : StoreClaim(t)
    \/ \E t \in Threads : CountBegin(t)
    \/ \E t \in Threads : CountEnd(t)
    \/ \E t \in Threads : SetGauge(t)

SpecClaims == Init /\ [][NextClaims]_vars

-----------------------------------------------------------------------------
(* The claims processor (src/app/lambda/claims_processor.py):               *)
(* analyze_claim_with_ai on what the call of the Bedrock model does.        *)

\* values of a field of the JSON object the model answers with
Absent == [tag |-> "absent"]
JNull == [tag |-> "null"]
JStr(v) == [tag |-> "str", value |-> v]
JNum(n) == [tag |-> "num", value |-> n]

\* dict.get(key, default)
Get(field, default) == IF field = Absent THEN default ELSE field

Decisions == {Absent, JNull, JStr("APPROVED"), JStr("REJECTED"), JStr("PENDING_REVIEW"),
              JStr("approved")}
ConfidenceScores == {Absent, JNull, JStr("90")} \cup {JNum(n) : n \in {0, 69, 70, 79, 80, 100}}

\* what bedrock_runtime.invoke_model and the two json.loads meet: the call
\* raises; the body is no JSON; the body has no 'completion'; the completion is
\* no JSON, a JSON list, or a JSON object
BedrockOutcomes ==
    {[tag |-> k] : k \in {"raises", "body_nonjson", "no_completion", "text", "list"}}
    \cup {[tag |-> "object", Decision |-> d, Confidence |-> c] :
              d \in Decisions, c \in ConfidenceScores}

\* a slip that rejects from the confidence that approves
FinalStatus_one_threshold(decision, confidence) ==
    IF decision = JStr("APPROVED") /\ confidence.value >= 80 THEN "approved"
    ELSE IF decision = JStr("REJECTED") /\ confidence.value >= 80 THEN "rejected"
    ELSE "pending_review"

\* the final status, from the decision and the confidence
FinalStatus(decision, confidence) ==
    IF decision = JStr("APPROVED") /\ confidence.value >= 80 THEN "approved"
    ELSE IF decision = JStr("REJECTED") /\ confidence.value >= 70 THEN "rejected"
    ELSE "pending_review"

\* str.lower() on the decisions of the model
LowerDecision(v) ==
    CASE v = "APPROVED" -> "approved"
      [] v = "REJECTED" -> "rejected"
      [] v = "PENDING_REVIEW" -> "pending_review"
      [] OTHER -> v

\* what the handler of the outer try returns
AnalysisFailed(t) ==
    [type |-> "ai_analysis", status |-> "pending_review", decision |-> "pending",
     reasoning |-> "AI analysis failed: ..", confidence |-> JNum(0),
     riskFactors |-> <<>>, recommendations |-> <<"Manual review required">>,
     processedAt |-> t]

\* analyze_claim_with_ai: an exception of the call, of json.loads of the body
\* or of result['completion'] reaches the outer handler; one of parsing the
\* completion (json.loads, or .get on a list) is caught by the inner one; the
\* comparison of a confidence that is no number, evaluated only after the
\* decision matched, and .lower() of a decision that is no string raise into
\* the outer handler
analyze_claim_with_ai(bedrock, t) ==
    IF bedrock.tag \in {"raises", "body_nonjson", "no_completion"} THEN AnalysisFailed(t)
    ELSE LET parsed == bedrock.tag = "object"
             decision == IF parsed THEN Get(bedrock.Decision, JStr("PENDING_REVIEW"))
                         ELSE JStr("PENDING_REVIEW")
             confidence == IF parsed THEN Get(bedrock.Confidence, JNum(50)) ELSE JNum(50)
             compared == decision \in {JStr("APPROVED"), JStr("REJECTED")}
         IN  IF compared /\ confidence.tag # "num" THEN AnalysisFailed(t)
             ELSE IF decision.tag # "str" THEN AnalysisFailed(t)
             ELSE [type |-> "ai_analysis",
                   status |-> FinalStatus(decision, confidence),
                   decision |-> LowerDecision(decision.value),
                   reasoning |-> IF parsed THEN "Reasoning" ELSE "ai_response",
                   confidence |-> confidence,
                   riskFactors |-> <<>>, recommendations |-> <<>>,
                   processedAt |-> t]

AnalyzeClaimWithAi ==
    /\ pc = "idle"
    /\ \E bedrock \in BedrockOutcomes, t \in Clock :
         /\ pc' = "done"
         /\ op' = "analyze_claim_with_ai"
         /\ env' = [bedrock |-> bedrock]
         /\ issued' = <<"invoke_model">>
         /\ ret' = Idle
         /\ outcome' = "returned"
         /\ result' = analyze_claim_with_ai(bedrock, t)
    /\ earlier' = NoEarlier
    /\ UNCHANGED elsewhere

NextProcessor ==
    \/ AnalyzeClaimWithAi
    \/ Respond

SpecProcessor == Init /\ [][NextProcessor]_vars

Next ==
    \/ CorrelateErrorSpike
    \/ CorrelateSlowRequests
    \/ CorrelateClaimRejectionPattern
    \/ CreateCorrelationStory
    \/ AnalyzeMetrics
    \/ AnalyzeLogs
    \/ Respond

Spec == Init /\ [][Next]_vars

\* the engine alone, and the analyzer alone
NextEngine ==
    \/ CorrelateErrorSpike
    \/ CorrelateSlowRequests
    \/ CorrelateClaimRejectionPattern
    \/ CreateCorrelationStory
    \/ Respond

SpecEngine == Init /\ [][NextEngine]_vars

NextAnalyzer ==
    \/ AnalyzeMetrics
    \/ AnalyzeLogs
    \/ Respond

SpecAnalyzer == Init /\ [][NextAnalyzer]_vars

\* the investigations, each possibly invoked twice on the same responses
NextRepeat ==
    \/ CorrelateErrorSpike
    \/ CorrelateSlowRequests
    \/ CorrelateClaimRejectionPattern
    \/ InvokeAgain
    \/ Respond

SpecRepeat == Init /\ [][NextRepeat]_vars

\* the two investigations that end with _generate_correlated_insight, and that
\* step on its own
NextInsight ==
    \/ CorrelateErrorSpike
    \/ CorrelateSlowRequests
    \/ GenerateCorrelatedInsight
    \/ Respond

SpecInsight == Init /\ [][NextInsight]_vars

\* every operation that can run in the process of the analyzer's registry
NextRegistry ==
    \/ RunAnalysis
    \/ GenerateRecommendations
    \/ AnalyzeMetrics
    \/ AnalyzeLogs
    \/ CorrelateErrorSpike
    \/ CorrelateSlowRequests
    \/ CorrelateClaimRejectionPattern
    \/ Respond

SpecRegistry == Init /\ [][NextRegistry]_vars

\* the three investigations, and steps 1 to 4 with a trace client in place of
\* the stub
NextFindings ==
    \/ CorrelateErrorSpike
    \/ CorrelateSlowRequests
    \/ CorrelateClaimRejectionPattern
    \/ GenerateCorrelatedInsight
    \/ Respond

SpecFindings == Init /\ [][NextFindings]_vars

\* the investigations served by the threads of the server
NextConcurrent ==
    \/ \E t \in Threads : WorkerQueryMetrics(t)
    \/ \E t \in Threads : WorkerQueryLogs(t)
    \/ \E t \in Threads : WorkerFinish(t)
    \/ \E t \in Threads : WorkerRespond(t)

SpecConcurrent == Init /\ [][NextConcurrent]_vars

-----------------------------------------------------------------------------
(* Vocabulary of the properties: what a response means to the caller *)

EngineOps == {"correlate_error_spike", "correlate_slow_requests",
              "correlate_claim_rejection_pattern", "create_correlation_story"}
Investigations == {"correlate_error_spike", "correlate_slow_requests",
                   "correlate_claim_rejection_pattern"}

\* a backend is unavailable: transport failure, timeout or non-success response
NonSuccess(r) == r.net = "ok" /\ ~(r.status \in 200..299)
Unavailable(r) == r.net # "ok" \/ NonSuccess(r)

\* the backend was queried successfully and found nothing
PromEmpty(r) == ~Unavailable(r) /\ r.body = PromResult(<<>>)
LogEmpty(r) == ~Unavailable(r) /\ r.body = Hits(<<>>)

\* the backend was queried successfully and returned data
PromData(r) ==
    /\ ~Unavailable(r)
    /\ r.body.tag = "result"
    /\ r.body.result # <<>>
    /\ \A i \in 1..Len(r.body.result) : r.body.result[i].tag = "num"
LogData(r) == ~Unavailable(r) /\ r.body.tag = "hits" /\ r.body.hits # <<>>

\* the responses of the metrics backend in a request of an investigation
MetricResponses ==
    IF op = "correlate_claim_rejection_pattern" THEN {env.rejected, env.total}
    ELSE {env.metrics}

MetricsUnavailable == \A r \in MetricResponses : Unavailable(r)
MetricsEmpty == \A r \in MetricResponses : PromEmpty(r)
MetricsData == \A r \in MetricResponses : PromData(r)

Investigated == pc = "done" /\ op \in Investigations
HasSource(source) == InSeq(source, Sources(result.findings))

-----------------------------------------------------------------------------
(* Properties *)

\* C1: no public operation of the engine raises an exception to its caller,
\* whatever the backends answer.
C1_EngineNeverRaises ==
    (pc = "done" /\ op \in EngineOps) => outcome = "returned"

\* C2: when every backend of an investigation is unavailable, or every backend
\* answers with an empty result, so that every client returns nothing, the
\* investigation returns no findings and the insight "No correlation data
\* available".
AllClientsReturnNothing ==
    /\ DOMAIN ret = {"metrics", "logs", "traces"}
    /\ \A c \in DOMAIN ret : ~Truthy(ret[c])

C2_NoDataFallback ==
    (/\ Investigated
     /\ AllClientsReturnNothing
     /\ \/ MetricsUnavailable /\ Unavailable(env.logs)
        \/ MetricsEmpty /\ LogEmpty(env.logs))
    => /\ outcome = "returned"
       /\ result.findings = <<>>
       /\ result.correlated_insight = NoCorrelationData

\* C3: in the result of every investigation a metrics finding precedes a logs
\* finding, and a logs finding precedes a traces finding.
Priority(source) ==
    CASE source = "metrics" -> 1 [] source = "logs" -> 2 [] source = "traces" -> 3 [] OTHER -> 4

C3_FindingsInSourceOrder ==
    (Investigated /\ outcome = "returned")
    => \A i, j \in 1..Len(result.findings) :
         Priority(result.findings[i].source) < Priority(result.findings[j].source) => i < j

C3_Witness ==
    /\ Investigated
    /\ outcome = "returned"
    /\ Sources(result.findings) = <<"metrics", "logs">>

\* C4: with total > 0, analyze_metrics emits exactly one high_claim_rejection_rate
\* problem of severity high iff rejected/total > 0.70, exactly one of severity
\* medium iff 0.50 < rejected/total <= 0.70, and none iff rejected/total <= 0.50.
RejectionProblemsOf(severity) ==
    {i \in 1..Len(result.problems) :
        /\ result.problems[i].type = "high_claim_rejection_rate"
        /\ result.problems[i].severity = severity}
AllRejectionProblems ==
    {i \in 1..Len(result.problems) : result.problems[i].type = "high_claim_rejection_rate"}

\* analyze_metrics returned, and both claim queries were answered with a number
MetricsAnalyzedWithCounts ==
    /\ pc = "done"
    /\ op = "analyze_metrics"
    /\ outcome = "returned"
    /\ PromData(env.rejections)
    /\ PromData(env.total_claims)

C4_RejectionThresholds ==
    (MetricsAnalyzedWithCounts /\ env.total_claims.body.result[1].milli > 0)
    => LET rejected == env.rejections.body.result[1].milli
           total == env.total_claims.body.result[1].milli
           high == Cardinality(RejectionProblemsOf("high"))
           medium == Cardinality(RejectionProblemsOf("medium"))
       IN  /\ Cardinality(AllRejectionProblems) = high + medium
           /\ IF 100 * rejected > 70 * total THEN high = 1 /\ medium = 0
              ELSE IF 100 * rejected > 50 * total THEN high = 0 /\ medium = 1
              ELSE high = 0 /\ medium = 0

\* 7 rejected of 10: exactly 0.70, one problem of severity medium
C4_Witness ==
    /\ MetricsAnalyzedWithCounts
    /\ env.rejections.body.result[1].milli = 7000
    /\ env.total_claims.body.result[1].milli = 10000
    /\ Cardinality(RejectionProblemsOf("medium")) = 1
    /\ Cardinality(RejectionProblemsOf("high")) = 0

\* C5: when the metrics backend reports a total of 0 claims, analyze_metrics adds
\* no high_claim_rejection_rate problem and correlate_claim_rejection_pattern adds
\* no metrics finding.
C5_ZeroTotalNoFinding ==
    /\ (MetricsAnalyzedWithCounts /\ env.total_claims.body.result[1].milli = 0)
       => AllRejectionProblems = {}
    /\ (/\ pc = "done"
        /\ op = "correlate_claim_rejection_pattern"
        /\ PromData(env.rejected)
        /\ PromData(env.total)
        /\ env.total.body.result[1].milli = 0)
       => (outcome = "returned" => ~HasSource("metrics"))

\* C6: what a metrics or log client returns when its backend was queried
\* successfully and found nothing differs from what it returns when the backend
\* is unavailable.
C6_UnavailableDistinctFromEmpty ==
    /\ (pc = "done" /\ op = "correlate_error_spike")
       => /\ PromEmpty(env.metrics) => ret.metrics # _get_error_metrics(TransportError)
          /\ LogEmpty(env.logs) => ret.logs # _get_error_logs(TransportError)
    /\ (pc = "done" /\ op = "correlate_slow_requests")
       => /\ PromEmpty(env.metrics) => ret.metrics # _get_slow_request_metrics(TransportError)
          /\ LogEmpty(env.logs) => ret.logs # _get_performance_logs(TransportError)
    /\ (pc = "done" /\ op = "correlate_claim_rejection_pattern")
       => (LogEmpty(env.logs) => ret.logs # _get_rejection_logs(TransportError))
    /\ (pc = "done" /\ op = "analyze_metrics")
       => (PromEmpty(env.error_rate) => ret.error_rates # get_prometheus_metrics(TransportError))
    /\ (pc = "done" /\ op = "analyze_logs")
       => (LogEmpty(env.error_logs) => ret.error_logs # get_opensearch_logs(TransportError))

\* C7: a response with a non-success status never contributes a finding to an
\* investigation, nor a problem to the analyzer.
ProblemTypes == {result.problems[i].type : i \in 1..Len(result.problems)}

C7_NonSuccessContributesNothing ==
    /\ (Investigated /\ outcome = "returned")
       => /\ (\E r \in MetricResponses : NonSuccess(r)) => ~HasSource("metrics")
          /\ NonSuccess(env.logs) => ~HasSource("logs")
    /\ (pc = "done" /\ op = "analyze_metrics" /\ outcome = "returned")
       => /\ NonSuccess(env.error_rate) => ~("high_error_rate" \in ProblemTypes)
          /\ (NonSuccess(env.rejections) \/ NonSuccess(env.total_claims))
             => ~("high_claim_rejection_rate" \in ProblemTypes)
          /\ NonSuccess(env.response_time) => ~("slow_response_time" \in ProblemTypes)
    /\ (pc = "done" /\ op = "analyze_logs" /\ outcome = "returned")
       => /\ NonSuccess(env.error_logs) => ~("high_error_rate" \in ProblemTypes)
          /\ NonSuccess(env.db_errors) => ~("database_connection_issues" \in ProblemTypes)

\* C8: a source appears among the findings of an investigation, and a problem
\* type in the output of analyze_metrics or analyze_logs, only if its backend
\* was available and returned data in that request.
C8_NoFindingFromUnavailable ==
    /\ (Investigated /\ outcome = "returned")
       => /\ HasSource("metrics") => MetricsData
          /\ HasSource("logs") => LogData(env.logs)
          /\ ~HasSource("traces")
    /\ (pc = "done" /\ op = "analyze_metrics" /\ outcome = "returned")
       => /\ "high_error_rate" \in ProblemTypes => PromData(env.error_rate)
          /\ "high_claim_rejection_rate" \in ProblemTypes
             => PromData(env.rejections) /\ PromData(env.total_claims)
          /\ "slow_response_time" \in ProblemTypes => PromData(env.response_time)
    /\ (pc = "done" /\ op = "analyze_logs" /\ outcome = "returned")
       => /\ "high_error_rate" \in ProblemTypes => LogData(env.error_logs)
          /\ "database_connection_issues" \in ProblemTypes => LogData(env.db_errors)

\* C9: when the query to one backend fails (the other answers well), every
\* backend of the investigation is still queried and every backend that
\* returned data contributes its finding.
Backends(queries) ==
    {IF q \in {"error_metrics", "slow_metrics", "rejected_metric", "total_metric"} THEN "metrics"
     ELSE IF q \in {"error_logs", "perf_logs", "rejection_logs"} THEN "logs"
     ELSE "traces" : q \in {queries[i] : i \in 1..Len(queries)}}

\* every document of the answer carries a message
WellFormedLogs(r) ==
    /\ ~Unavailable(r)
    /\ r.body.tag = "hits"
    /\ \A i \in 1..Len(r.body.hits) : r.body.hits[i].tag = "str"

C9_NoShortCircuit ==
    (Investigated /\ (\/ MetricsUnavailable /\ WellFormedLogs(env.logs)
                      \/ Unavailable(env.logs) /\ (MetricsData \/ MetricsEmpty)))
    => /\ Backends(issued) = {"metrics", "logs", "traces"}
       /\ outcome = "returned"
       /\ MetricsData => HasSource("metrics")
       /\ (WellFormedLogs(env.logs) /\ LogData(env.logs)) => HasSource("logs")

\* C10: when one backend is unavailable and another returned data, the
\* investigation returns the findings of the available backends only, with an
\* insight; an error-spike investigation where only the log backend returned
\* documents yields one logs finding and the partial-data insight.
C10_PartialData ==
    /\ (Investigated /\ MetricsUnavailable /\ LogData(env.logs))
       => /\ outcome = "returned"
          /\ Sources(result.findings) = <<"logs">>
          /\ result.correlated_insight # NoCorrelationData
          /\ op = "correlate_error_spike" => result.correlated_insight = PartialCorrelationData
    /\ (Investigated /\ Unavailable(env.logs) /\ MetricsData)
       => /\ outcome = "returned"
          /\ Sources(result.findings) = <<"metrics">>
          /\ result.correlated_insight # NoCorrelationData

\* C11: invoking the same investigation twice with identical backend responses
\* yields identical results.
Repeated == pc = "done" /\ earlier # NoEarlier

WithoutTimestamp(value) ==
    IF "timestamp" \in DOMAIN value
    THEN [k \in DOMAIN value \ {"timestamp"} |-> value[k]]
    ELSE value

FromOwnResponses ==
    CASE op = "correlate_error_spike" -> correlate_error_spike(env.metrics, env.logs)
      [] op = "correlate_slow_requests" -> correlate_slow_requests(env.metrics, env.logs)
      [] OTHER -> correlate_claim_rejection_pattern(env.rejected, env.total, env.logs)

SourceSet == {result.findings[i].source : i \in 1..Len(result.findings)}

HasInsight ==
    /\ pc = "done"
    /\ outcome = "returned"
    /\ op \in {"correlate_error_spike", "correlate_slow_requests", "_generate_correlated_insight"}

C12_InsightBySources ==
    HasInsight =>
       IF SourceSet = {} THEN result.correlated_insight = NoCorrelationData
       ELSE IF {"metrics", "logs"} \subseteq SourceSet
       THEN /\ result.correlated_insight.tpl = WhatWhyTemplate
            /\ result.correlated_insight.what = FirstOf(result.findings, "metrics").insight
            /\ result.correlated_insight.why = FirstOf(result.findings, "logs").insight
       ELSE IF {"metrics", "traces"} \subseteq SourceSet
       THEN result.correlated_insight = MetricsTracesInsight
       ELSE result.correlated_insight = PartialCorrelationData

C12_Witness ==
    /\ HasInsight
    /\ SourceSet = {"metrics", "logs", "traces"}
    /\ result.correlated_insight.tpl = WhatWhyTemplate

\* C13: the root_cause of the rejection investigation names the reason with
\* the largest number of occurrences among the reasons of the rejection logs,
\* with that number, whenever the logs finding holds a reason; when the logs
\* are unavailable, empty, or hold no message of a known reason, root_cause is
\* the fixed default string.
RejectionReturned ==
    /\ pc = "done"
    /\ op = "correlate_claim_rejection_pattern"
    /\ outcome = "returned"

KnownReasons == {ReasonInvalid, ReasonExceeds, ReasonFailed}

\* the reason a log document stands for: the first phrase its message holds
ReasonOfDoc(doc) ==
    IF doc.tag # "str" THEN <<>>
    ELSE IF Contains(doc.message, "Invalid") THEN ReasonInvalid
    ELSE IF Contains(doc.message, "exceeds") THEN ReasonExceeds
    ELSE IF Contains(doc.message, "rejected") THEN ReasonFailed
    ELSE <<>>

DocsAnswered(r) == IF r.net = "ok" /\ r.body.tag = "hits" THEN r.body.hits ELSE <<>>

Occurrences(r, reason) ==
    Cardinality({i \in 1..Len(DocsAnswered(r)) : ReasonOfDoc(DocsAnswered(r)[i]) = reason})

NoKnownReason(r) == \A reason \in KnownReasons : Occurrences(r, reason) = 0

LogsFindingHoldsReason ==
    /\ HasSource("logs")
    /\ FirstOf(result.findings, "logs").data.top_reasons # <<>>

C13_RootCauseTopReason ==
    RejectionReturned =>
       /\ LogsFindingHoldsReason
          => /\ result.root_cause.tpl = ".. (.. occurrences)"
             /\ result.root_cause.s \in KnownReasons
             /\ result.root_cause.n = Occurrences(env.logs, result.root_cause.s)
             /\ \A reason \in KnownReasons :
                   Occurrences(env.logs, reason) <= result.root_cause.n
       /\ (Unavailable(env.logs) \/ LogEmpty(env.logs) \/ NoKnownReason(env.logs))
          => result.root_cause = DefaultRootCause

\* C14: recommended_actions of the rejection investigation is never empty.  It
\* is exactly the one generic action 'Investigate Further' iff no reason of the
\* logs finding matches a pattern that _suggest_actions tests for; otherwise it
\* holds one action per matching reason, in the order of the reasons, each with
\* the count of its reason, no two with the same action name, none generic.
TopReasons ==
    IF HasSource("logs") THEN FirstOf(result.findings, "logs").data.top_reasons ELSE <<>>

MatchesPattern(entry) == Contains(entry.k, "Invalid") \/ Contains(entry.k, "exceeds")
MatchedReasons == SelectSeq(TopReasons, MatchesPattern)
ActionNameOf(entry) ==
    IF Contains(entry.k, "Invalid") THEN "Fix Policy Validation" ELSE "Review Coverage Limits"

C14_RecommendedActions ==
    RejectionReturned =>
       LET actions == result.recommended_actions IN
       /\ actions # <<>>
       /\ (actions = <<InvestigateFurther>>) <=> (MatchedReasons = <<>>)
       /\ MatchedReasons # <<>>
          => /\ Len(actions) = Len(MatchedReasons)
             /\ \A i \in 1..Len(actions) :
                   /\ actions[i].action = ActionNameOf(MatchedReasons[i])
                   /\ actions[i].details.n = MatchedReasons[i].v
                   /\ actions[i].action # InvestigateFurther.action
             /\ \A i, j \in 1..Len(actions) : actions[i].action = actions[j].action => i = j

\* two reasons, the second of which matches a pattern
C14_Witness ==
    /\ RejectionReturned
    /\ Len(TopReasons) = 2
    /\ ~MatchesPattern(TopReasons[1])
    /\ MatchesPattern(TopReasons[2])
    /\ Len(result.recommended_actions) = 1
    /\ result.recommended_actions[1].action = "Fix Policy Validation"

\* C15: when every backend of an investigation is unavailable, the
\* investigation returns a result, not an error, whose recommended actions are
\* a single generic action of low priority.
C15_GenericLowPriorityAction ==
    (Investigated /\ MetricsUnavailable /\ Unavailable(env.logs))
    => /\ outcome = "returned"
       /\ "recommended_actions" \in DOMAIN result
       /\ Len(result.recommended_actions) = 1
       /\ result.recommended_actions[1].action = "Investigate Further"
       /\ result.recommended_actions[1].priority = "low"

\* C16: create_correlation_story returns three chapters numbered in order, and
\* the root_cause of its conclusion is the root_cause that
\* correlate_claim_rejection_pattern derives from the same backend responses.
C16_StoryRootCause ==
    (pc = "done" /\ op = "create_correlation_story" /\ outcome = "returned")
    => LET rejection == correlate_claim_rejection_pattern(env.rejected, env.total, env.logs) IN
       /\ Len(result.chapters) = 3
       /\ \A i \in 1..3 : result.chapters[i].chapter = i
       /\ rejection.outcome = "returned"
       /\ result.conclusion.root_cause = rejection.result.root_cause

\* C17: correlate_error_spike adds no metrics finding when the window holds no
\* error (an error ratio of 0, not above 0.05), and correlate_slow_requests adds
\* none when the p95 duration is at or below 2000 ms.
C17_MetricsFindingThresholds ==
    /\ (/\ pc = "done"
        /\ op = "correlate_error_spike"
        /\ outcome = "returned"
        /\ PromData(env.metrics)
        /\ env.metrics.body.result[1].milli = 0)
       => ~HasSource("metrics")
    /\ (/\ pc = "done"
        /\ op = "correlate_slow_requests"
        /\ outcome = "returned"
        /\ PromData(env.metrics)
        /\ env.metrics.body.result[1].milli <= ResponseTimeP95Threshold)
       => ~HasSource("metrics")

\* C18: analyze_metrics emits one high_error_rate problem of severity high for
\* each series of the error-rate answer whose ratio is > 0.05 and for no other,
\* and one slow_response_time problem of severity medium for each series of
\* the latency answer whose p95 is > 2000 ms and for no other, each whatever
\* the other checks find; two thresholds exceeded give two problems.
MetricsAnalyzed == pc = "done" /\ op = "analyze_metrics" /\ outcome = "returned"

\* the values of the series a successful answer holds
SeriesValues(r) ==
    IF ~Unavailable(r) /\ r.body.tag = "result"
    THEN [i \in 1..Len(r.body.result) |->
            IF r.body.result[i].tag = "num" THEN r.body.result[i].milli ELSE 0]
    ELSE <<>>

Above(values, threshold) == {i \in 1..Len(values) : values[i] > threshold}
ProblemsOfType(type) == {i \in 1..Len(result.problems) : result.problems[i].type = type}

C18_IndependentThresholds ==
    MetricsAnalyzed =>
       LET rates == SeriesValues(env.error_rate)
           times == SeriesValues(env.response_time)
       IN  /\ Cardinality(ProblemsOfType("high_error_rate"))
                = Cardinality(Above(rates, ErrorRateThreshold))
           /\ Cardinality(ProblemsOfType("slow_response_time"))
                = Cardinality(Above(times, ResponseTimeP95Threshold))
           /\ \A i \in ProblemsOfType("high_error_rate") :
                 /\ result.problems[i].severity = "high"
                 /\ \E j \in Above(rates, ErrorRateThreshold) :
                       result.problems[i].value = rates[j]
           /\ \A i \in ProblemsOfType("slow_response_time") :
                 /\ result.problems[i].severity = "medium"
                 /\ \E j \in Above(times, ResponseTimeP95Threshold) :
                       result.problems[i].value = times[j]

\* error ratio 0.08 and p95 2500 ms in the same request: two problems
C18_Witness ==
    /\ MetricsAnalyzed
    /\ SeriesValues(env.error_rate) = <<80>>
    /\ SeriesValues(env.response_time) = <<2500>>
    /\ Cardinality(ProblemsOfType("high_error_rate")) = 1
    /\ Cardinality(ProblemsOfType("slow_response_time")) = 1
    /\ Len(result.problems) >= 2

\* C19: analyze_logs emits one high_error_rate problem of severity high iff the
\* answer to the ERROR query holds more than 10 documents, and one
\* database_connection_issues problem of severity high iff the answer to the
\* database query holds more than 5; 10 and 5 documents emit nothing, each
\* check is independent of the other, and an unavailable backend emits nothing.
LogsAnalyzed == pc = "done" /\ op = "analyze_logs" /\ outcome = "returned"

DocCount(r) == IF ~Unavailable(r) /\ r.body.tag = "hits" THEN Len(r.body.hits) ELSE 0

C19_LogVolumeThresholds ==
    LogsAnalyzed =>
       LET errors == ProblemsOfType("high_error_rate")
           database == ProblemsOfType("database_connection_issues")
       IN  /\ Cardinality(errors) = IF DocCount(env.error_logs) > 10 THEN 1 ELSE 0
           /\ Cardinality(database) = IF DocCount(env.db_errors) > 5 THEN 1 ELSE 0
           /\ Len(result.problems) = Cardinality(errors) + Cardinality(database)
           /\ \A i \in errors :
                 /\ result.problems[i].severity = "high"
                 /\ result.problems[i].count = DocCount(env.error_logs)
           /\ \A i \in database :
                 /\ result.problems[i].severity = "high"
                 /\ result.problems[i].count = DocCount(env.db_errors)
           /\ Unavailable(env.error_logs) => errors = {}
           /\ Unavailable(env.db_errors) => database = {}

\* 11 ERROR documents and exactly 5 database documents: one problem
C19_Witness ==
    /\ LogsAnalyzed
    /\ DocCount(env.error_logs) = 11
    /\ DocCount(env.db_errors) = 5
    /\ Len(result.problems) = 1
    /\ result.problems[1].type = "high_error_rate"

\* C20: _extract_patterns puts each message in at most one bucket, so the
\* counts of the patterns it returns sum to at most the number of messages, and
\* the patterns are returned in non-increasing order of count.
RECURSIVE SumOfCounts(_)
SumOfCounts(entries) ==
    IF entries = <<>> THEN 0 ELSE Head(entries).v + SumOfCounts(Tail(entries))

NonIncreasing(entries) ==
    \A i, j \in 1..Len(entries) : i < j => entries[i].v >= entries[j].v

C20_PatternsOneBucket ==
    (/\ pc = "done"
     /\ op = "correlate_error_spike"
     /\ outcome = "returned"
     /\ LogData(env.logs)
     /\ HasSource("logs"))
    => LET data == FirstOf(result.findings, "logs").data IN
       /\ SumOfCounts(data.common_patterns) <= data.count
       /\ NonIncreasing(data.common_patterns)

\* C21: _extract_rejection_reasons counts each rejection log under at most one
\* reason, the first of 'Invalid', 'exceeds', 'rejected' its message holds, so
\* the counts sum to at most the number of logs; the reasons are returned in
\* non-increasing order of count, reasons of equal count in first-seen order.
FirstSeen(r, reason) ==
    CHOOSE i \in 1..Len(DocsAnswered(r)) :
        /\ ReasonOfDoc(DocsAnswered(r)[i]) = reason
        /\ \A j \in 1..(i - 1) : ReasonOfDoc(DocsAnswered(r)[j]) # reason

C21_ReasonsOneBucketRanked ==
    (RejectionReturned /\ HasSource("logs"))
    => LET reasons == TopReasons IN
       /\ SumOfCounts(reasons) <= Len(DocsAnswered(env.logs))
       /\ \A i \in 1..Len(reasons) :
             /\ reasons[i].k \in KnownReasons
             /\ reasons[i].v = Occurrences(env.logs, reasons[i].k)
             /\ reasons[i].v > 0
       /\ \A reason \in KnownReasons :
             Occurrences(env.logs, reason) > 0 => \E i \in 1..Len(reasons) : reasons[i].k = reason
       /\ \A i, j \in 1..Len(reasons) :
             i < j => /\ reasons[i].k # reasons[j].k
                      /\ reasons[i].v >= reasons[j].v
                      /\ reasons[i].v = reasons[j].v
                         => FirstSeen(env.logs, reasons[i].k) < FirstSeen(env.logs, reasons[j].k)

\* the reason seen second has the larger count and is returned first
C21_Witness ==
    /\ RejectionReturned
    /\ HasSource("logs")
    /\ Len(TopReasons) = 2
    /\ TopReasons[1].v = 2
    /\ TopReasons[2].v = 1
    /\ FirstSeen(env.logs, TopReasons[2].k) < FirstSeen(env.logs, TopReasons[1].k)

\* C22: every finding of source metrics in the result of an investigation, and
\* every problem analyze_metrics returns, carries a severity that is one of
\* low, medium, high.
Severities == {"low", "medium", "high"}

C22_MetricsFindingsHaveSeverity ==
    /\ (Investigated /\ outcome = "returned" /\ MetricsData)
       => \A i \in 1..Len(result.findings) :
             result.findings[i].source = "metrics"
             => /\ "severity" \in DOMAIN result.findings[i]
                /\ result.findings[i].severity \in Severities
    /\ MetricsAnalyzed
       => \A i \in 1..Len(result.problems) :
             /\ "severity" \in DOMAIN result.problems[i]
             /\ result.problems[i].severity \in Severities

\* C23: when investigations run concurrently on the one engine, their backend
\* calls interleaved in any order, each returns exactly the result it returns
\* running alone on the same responses at the same reading of the clock.
RunningAlone(w) ==
    CASE w.op = "correlate_error_spike" -> correlate_error_spike(w.env.metrics, w.env.logs)
      [] w.op = "correlate_slow_requests" -> correlate_slow_requests(w.env.metrics, w.env.logs)
      [] OTHER -> correlate_claim_rejection_pattern(w.env.metrics, w.env.metrics, w.env.logs)

C23_ConcurrentAsAlone ==
    \A t \in Threads :
       workers[t].pc = "done"
       => /\ RunningAlone(workers[t]).outcome = "returned"
          /\ workers[t].result = Timestamped(RunningAlone(workers[t]).result, workers[t].stamp)

\* a thread has returned findings while another, running another
\* investigation, holds findings of its own and is not done
C23_Witness ==
    \E t, u \in Threads :
       /\ workers[t].pc = "done"
       /\ workers[t].findings # <<>>
       /\ workers[u].pc = "traces"
       /\ workers[u].findings # <<>>
       /\ workers[u].op # workers[t].op
       /\ workers[t].result = Timestamped(RunningAlone(workers[t]).result, workers[t].stamp)

\* C24: the problem-pattern registry is never mutated at runtime: after any
\* sequence of run_analysis, analyze_metrics, analyze_logs and
\* generate_recommendations calls and of engine investigations, its keys,
\* descriptions and solution lists are those set at construction.
C24_RegistryNeverMutated ==
    /\ DOMAIN problem_patterns = DOMAIN ProblemPatterns
    /\ \A k \in DOMAIN ProblemPatterns :
         /\ problem_patterns[k].description = ProblemPatterns[k].description
         /\ problem_patterns[k].solutions = ProblemPatterns[k].solutions

\* an analysis has recommended the solutions of two patterns, and the registry
\* still holds both
C24_Witness ==
    /\ pc = "done"
    /\ op = "run_analysis"
    /\ outcome = "returned"
    /\ Len(result.recommendations) >= 2
    /\ \A i \in 1..Len(result.recommendations) :
         \E k \in DOMAIN problem_patterns :
            result.recommendations[i].solutions = problem_patterns[k].solutions

FindingSources == {"metrics", "logs", "traces"}

\* an investigation, or its steps with a trace client, has returned its findings
FindingsReturned ==
    /\ pc = "done"
    /\ outcome = "returned"
    /\ op \in Investigations \cup {"_generate_correlated_insight"}

\* C25: every result of an investigation holds at most three findings, at most
\* one per source, each of source metrics, logs or traces; a finding is present
\* for a source exactly when that source's query returned a non-empty value.
C25_FindingsBySource ==
    FindingsReturned =>
        /\ Len(result.findings) <= 3
        /\ \A i \in 1..Len(result.findings) : result.findings[i].source \in FindingSources
        /\ \A i, j \in 1..Len(result.findings) :
             result.findings[i].source = result.findings[j].source => i = j
        /\ \A source \in FindingSources : HasSource(source) <=> Truthy(ret[source])

\* a rejection investigation whose metrics and logs queries returned data and
\* whose trace query returned the empty list holds the two findings
C25_Witness ==
    /\ RejectionReturned
    /\ Truthy(ret.metrics) /\ Truthy(ret.logs) /\ ~Truthy(ret.traces)
    /\ Len(result.findings) = 2
    /\ HasSource("metrics") /\ HasSource("logs") /\ ~HasSource("traces")

WhatWhyProduced == HasInsight /\ result.correlated_insight.tpl = WhatWhyTemplate

\* C26: whenever _generate_correlated_insight produces the WHAT/WHY message,
\* whatever sources are present, findings[0] and findings[1] exist, the text
\* quoted as the WHAT is the insight of the finding of source metrics and the
\* text quoted as the WHY is the insight of the finding of source logs.
C26_WhatWhyPositions ==
    WhatWhyProduced =>
        /\ Len(result.findings) >= 2
        /\ result.findings[1].source = "metrics"
        /\ result.findings[2].source = "logs"
        /\ \A i \in 1..Len(result.findings) :
             /\ result.findings[i].source = "metrics"
                   => result.correlated_insight.what = result.findings[i].insight
             /\ result.findings[i].source = "logs"
                   => result.correlated_insight.why = result.findings[i].insight

\* a performance investigation with a metrics and a logs finding quotes the
\* P95 insight as the WHAT
C26_Witness ==
    /\ WhatWhyProduced
    /\ op = "correlate_slow_requests"
    /\ SourceSet = {"metrics", "logs"}
    /\ result.correlated_insight.what.tpl = "P95 response time: ..ms"
    /\ result.correlated_insight.why = result.findings[2].insight

SpecificRejectionInsight ==
    result.correlated_insight.tpl =
        "CORRELATION INSIGHT: ..% of claims are rejected. Logs reveal the primary reason is '..'"

\* C27: in a rejection investigation whose metrics and logs findings are both
\* present and whose logs yield at least one reason, the primary reason named
\* in correlated_insight is the reason named in root_cause, and it is the first
\* entry of the logs finding's top_reasons; the specific rejection insight is
\* produced iff both the metrics and the logs finding are present.
C27_InsightAgreesWithRootCause ==
    RejectionReturned =>
        /\ (HasSource("metrics") /\ HasSource("logs") /\ TopReasons # <<>>)
              => /\ result.root_cause.tpl = ".. (.. occurrences)"
                 /\ result.correlated_insight.s = result.root_cause.s
                 /\ result.correlated_insight.s = TopReasons[1].k
        /\ SpecificRejectionInsight <=> (HasSource("metrics") /\ HasSource("logs"))

\* both findings are present, the logs yield two reasons, and the insight and
\* the root cause name the first of them
C27_Witness ==
    /\ RejectionReturned
    /\ HasSource("metrics") /\ HasSource("logs")
    /\ Len(TopReasons) >= 2
    /\ SpecificRejectionInsight
    /\ result.correlated_insight.s = TopReasons[1].k
    /\ result.root_cause.s = TopReasons[1].k

\* recommended_actions holds the action `name` of priority `priority` with the
\* count of the reason `reason` of top_reasons
Remediated(reason, name, priority) ==
    \A i \in 1..Len(TopReasons) :
        TopReasons[i].k = reason
        => \E j \in 1..Len(result.recommended_actions) :
              /\ result.recommended_actions[j].action = name
              /\ result.recommended_actions[j].priority = priority
              /\ result.recommended_actions[j].details.n = TopReasons[i].v

\* C28: whenever the rejection logs hold a message classified as 'Exceeds
\* coverage', recommended_actions holds a 'Review Coverage Limits' action of
\* priority medium with that reason's count, just as an 'Invalid or inactive
\* policy' reason yields a 'Fix Policy Validation' action of priority high.
C28_CoverageReasonRemediated ==
    RejectionReturned =>
        /\ Remediated(ReasonExceeds, "Review Coverage Limits", "medium")
        /\ Remediated(ReasonInvalid, "Fix Policy Validation", "high")

\* every submit_claim received has been answered
AllCompleted == \A t \in Threads : submitters[t].pc = "idle"

\* C29: in the local claims service, after any set of submit_claim requests,
\* sequential or interleaved, has completed, the gauge ACTIVE_CLAIMS equals the
\* number of claims of claims_db whose status is pending_review, claims_db
\* holds exactly one entry per request answered with success, and a request
\* answered with 500 before the store step added no entry.
C29_GaugeMatchesStore ==
    AllCompleted =>
        /\ ACTIVE_CLAIMS = PendingReview(claims_db)
        /\ DOMAIN claims_db = {a.claim_id : a \in {x \in answered : x.code = 200}}
        /\ \A a \in answered :
             (a.code = 500 /\ ~a.stored) => a.claim_id \notin DOMAIN claims_db

Analyzed == pc = "done" /\ op = "analyze_claim_with_ai"

\* the model answered a JSON object with the decision `d`
AiDecision(d) ==
    /\ env.bedrock.tag = "object"
    /\ env.bedrock.Decision = JStr(d)
\* ... and with a confidence that is a number of at least `n`
AiConfidenceAtLeast(n) ==
    /\ env.bedrock.tag = "object"
    /\ env.bedrock.Confidence.tag = "num"
    /\ env.bedrock.Confidence.value >= n
AiUnparseable == env.bedrock.tag \in {"text", "list"}
AiCallFailed == env.bedrock.tag \in {"raises", "body_nonjson", "no_completion"}

\* C30: analyze_claim_with_ai always returns a status among approved, rejected
\* and pending_review and never raises: approved iff the AI decision is
\* APPROVED with confidence >= 80, rejected iff it is REJECTED with confidence
\* >= 70, pending_review in every other case, among them an unparseable answer
\* (confidence 50) and a failure of the AI call (confidence 0).
C30_StatusFromDecisionAndConfidence ==
    Analyzed =>
        /\ outcome = "returned"
        /\ result.status \in {"approved", "rejected", "pending_review"}
        /\ result.status = "approved" <=> (AiDecision("APPROVED") /\ AiConfidenceAtLeast(80))
        /\ result.status = "rejected" <=> (AiDecision("REJECTED") /\ AiConfidenceAtLeast(70))
        /\ AiUnparseable => (result.status = "pending_review" /\ result.confidence = JNum(50))
        /\ AiCallFailed => (result.status = "pending_review" /\ result.confidence = JNum(0))

\* a rejection of confidence between the two thresholds is final
C30_Witness ==
    /\ Analyzed
    /\ AiDecision("REJECTED")
    /\ env.bedrock.Confidence = JNum(79)
    /\ result.status = "rejected"
    /\ result.decision = "rejected"

====
